---- MODULE Spec2Model ----
(***************************************************************************)
(* State-machine model of the FyersGapUp market-data layer                 *)
(* (services/fyers_websocket_service.py: FyersWebSocketService,            *)
(* FallbackDataService, HybridFyersDataService) and of the strategy engine *)
(* (strategy/gap_up_strategy.py: GapUpStrategyWebSocket).                  *)
(*                                                                         *)
(* Units.  Prices are integers in thousandths of a rupee (101000 = Rs 101),*)
(* change_pct is in hundredths of a percent (100 = 1.00 %), confidence is  *)
(* scaled by 10000 (6000 = 0.6).  The price inputs are multiples of 1000,  *)
(* for which the float arithmetic of the source is exact in these units.   *)
(*                                                                         *)
(* The vendor socket (fyers_apiv3 FyersDataSocket) is not part of the      *)
(* repository: it is modelled as an environment that may open, close,      *)
(* fail, retry (reconnect=True, reconnect_retry) and deliver frames, and   *)
(* that calls the handlers the channel registered with it.                 *)
(***************************************************************************)
EXTENDS Integers, Sequences, FiniteSets, TLC

\* ------------------------------------------------------------------ bounds
MaxSock  == 2   \* vendor sockets (one per streaming connect()) and channel objects
MaxPolls == 1   \* 0.1 s sleeps of connect()'s wait loop before the timeout
\* FyersDataSocket(reconnect_retry=10): the vendor socket's retry budget.  The
\* model gives the socket a smaller budget than the 10 of the source, so that
\* its exhaustion is reached; the guard that reads it is the same.
reconnect_retry == 1

WsIds   == 1..MaxSock
SockIds == 1..MaxSock
FbIds   == 1..MaxSock

\* ---------------------------------------------------------------- symbols
\* A part of the universe: the four reference-basket instruments, one that
\* only the streaming table maps, and one that no table maps.
Symbols == {"RELIANCE.NS", "TCS.NS", "HDFCBANK.NS", "INFY.NS", "WIPRO.NS", "SUNPHARMA.NS"}

FyersName(s) ==
  CASE s = "RELIANCE.NS"  -> "NSE:RELIANCE-EQ"
    [] s = "TCS.NS"       -> "NSE:TCS-EQ"
    [] s = "HDFCBANK.NS"  -> "NSE:HDFCBANK-EQ"
    [] s = "INFY.NS"      -> "NSE:INFY-EQ"
    [] s = "WIPRO.NS"     -> "NSE:WIPRO-EQ"
    [] OTHER              -> s

\* FyersWebSocketService.symbol_mapping, restricted to Symbols
WsMapped == {"RELIANCE.NS", "TCS.NS", "HDFCBANK.NS", "INFY.NS", "WIPRO.NS"}

\* symbol_mapping.get(symbol, symbol)
WsToVenue(s) == IF s \in WsMapped THEN FyersName(s) ELSE s

\* A reverse lookup that also answers for a venue name the table does not hold
WsToInternalGuessing(v) ==
  IF \E s \in WsMapped : FyersName(s) = v
  THEN CHOOSE s \in WsMapped : FyersName(s) = v
  ELSE IF v = "NSE:SUNPHARMA-EQ" THEN "SUNPHARMA.NS" ELSE ""

\* reverse_symbol_mapping.get(venue): the internal symbol, or "" for None
WsToInternal(v) ==
  IF \E s \in WsMapped : FyersName(s) = v
  THEN CHOOSE s \in WsMapped : FyersName(s) = v
  ELSE ""

\* ------------------------------------------------------------------ quotes
NoQuote == [symbol |-> "", ltp |-> 0, previous_close |-> 0, change |-> 0, change_pct |-> 0]

\* x * n / d rounded down, computed without the intermediate product x * n
MulDiv(x, n, d) == (x \div d) * n + ((x % d) * n) \div d

\* (change / previous_close) * 100 in hundredths of a percent, rounded down;
\* both branches are the same number, the first keeps a large previous close
\* within the integers
PercentOf(change, previous_close) ==
  IF previous_close % 100 = 0
  THEN (change * 100) \div (previous_close \div 100)
  ELSE (change * 10000) \div previous_close

\* A LiveQuote whose percentage is taken over the last price
LiveQuoteOverLtp(symbol, ltp, previous_close) ==
  IF previous_close > 0
  THEN [symbol |-> symbol, ltp |-> ltp, previous_close |-> previous_close,
        change |-> ltp - previous_close,
        change_pct |-> IF ltp > 0 THEN PercentOf(ltp - previous_close, ltp) ELSE 0]
  ELSE [symbol |-> symbol, ltp |-> ltp, previous_close |-> previous_close,
        change |-> 0, change_pct |-> 0]

\* LiveQuote.__post_init__ (open/high/low/volume/timestamp carry no decision
\* of the modelled code and are left out of the record)
LiveQuote(symbol, ltp, previous_close) ==
  IF previous_close > 0
  THEN [symbol |-> symbol, ltp |-> ltp, previous_close |-> previous_close,
        change |-> ltp - previous_close,
        change_pct |-> PercentOf(ltp - previous_close, previous_close)]
  ELSE [symbol |-> symbol, ltp |-> ltp, previous_close |-> previous_close,
        change |-> 0, change_pct |-> 0]

EmptyQuotes == [s \in Symbols |-> NoQuote]

VARIABLES
  \* FyersWebSocketService objects
  n_ws,                \* how many have been constructed
  ws_is_connected, ws_reconnect_count, ws_subscribed_symbols, ws_live_quotes,
  ws_data_callbacks, ws_fyers_socket,
  ws_pc,               \* position of a running connect(): idle / wait / check
  ws_waited,           \* sleeps taken by the wait loop of the running connect()
  ws_ret,              \* what the last connect() returned: none / true / false
  ws_timed_out,        \* the last connect() left its wait loop on the timeout
  ws_link,             \* fresh: since the caller's last connect, disconnect or sent
                       \* subscribe; dropped: a close or error event has cleared the
                       \* flag since; resumed: and _on_open has set it again
  ws_sent,             \* venue ids of the subscribe frames sent since the last _on_open
  \* vendor sockets
  n_sock, sock_owner, sock_state, sock_attempts,
  \* consumers
  live_quotes,         \* GapUpStrategyWebSocket.live_quotes
  delivered,           \* per callback, invocations during the latest accepted update
  last_src,            \* the channel that accepted the latest update: <<kind, id>>
  last_call,           \* the latest caller operation and what it returned
  \* GapUpStrategyWebSocket
  positions, daily_pnl, total_pnl,
  eng_pc,              \* position of the running cycle: idle / monitored / gen / exec
  available_slots,     \* the local of _generate_and_execute_signals
  signals,             \* the list _generate_signals builds, then the sorted list
  gen_next,            \* index in StockOrder of the next symbol _generate_signals reads
  exec_next,           \* index in signals of the next signal the execute loop reads
  n_closed,            \* close events so far
  realized,            \* the sum of the P&L of the close events so far
  last_closed,         \* the close events of the latest monitor step
  \* FallbackDataService objects
  n_fb,                \* how many have been constructed
  fb_is_connected, fb_stop_event, fb_subscribed_symbols, fb_live_quotes,
  fb_data_callbacks,
  fb_threads,          \* polling threads of the object that have not left _poll_data
  \* HybridFyersDataService
  gw_primary_service,  \* FyersWebSocketService object, 0 for None
  gw_fallback_service, \* FallbackDataService object, 0 for None
  gw_using_fallback, gw_is_connected, gw_subscribed_symbols, gw_data_callbacks,
  gw_pc,               \* position of a running connect(): idle / primary / returned
  gw_ret,              \* what the last connect() returned: none / true / false
  gw_stream,           \* what primary_service.connect() returned in the last connect()
  gw_poll,             \* what fallback_service.connect() returned there, none if not called
  gw_selected,         \* the channel on which the latest successful connect() succeeded
  \* configuration and observations
  max_reconnect_attempts, \* WebSocketConfig.max_reconnect_attempts of the ws_config
  dispatch_log,        \* per callback invocation of the latest accepted update, in
                       \* the order made: the callback and what the channel's store
                       \* and the engine's view held for the symbol when it was called
  phase_quotes,        \* the engine's view when the running generate phase began
  last_cycle,          \* how the latest run_strategy_cycle went (none / skipped / ran)
                       \* and which positions were at their stop or target then
  run_pc,              \* where run() is: "none" (not followed), "loop", "done"
  clock,               \* what the wall clock reads: "closed", "signal" or "late"
  analysis             \* the latest answers of the analysis service and the
                       \* histories yfinance returned for them

wsVars   == <<n_ws, ws_is_connected, ws_reconnect_count, ws_subscribed_symbols,
              ws_live_quotes, ws_data_callbacks, ws_fyers_socket, ws_pc, ws_waited,
              ws_ret, ws_timed_out, ws_link, ws_sent>>
sockVars == <<n_sock, sock_owner, sock_state, sock_attempts>>
consVars == <<live_quotes, delivered, last_src, last_call>>
engVars  == <<positions, daily_pnl, total_pnl, eng_pc, available_slots, signals,
              gen_next, exec_next, n_closed, realized, last_closed>>
fbVars   == <<n_fb, fb_is_connected, fb_stop_event, fb_subscribed_symbols,
              fb_live_quotes, fb_data_callbacks, fb_threads>>
gwVars   == <<gw_primary_service, gw_fallback_service, gw_using_fallback,
              gw_is_connected, gw_subscribed_symbols, gw_data_callbacks, gw_pc,
              gw_ret, gw_stream, gw_poll, gw_selected>>
obsVars  == <<max_reconnect_attempts, dispatch_log, phase_quotes, last_cycle,
              run_pc, clock, analysis>>
vars     == <<wsVars, sockVars, consVars, engVars, fbVars, gwVars, obsVars>>

\* --------------------------------------------------------------- callbacks
\* "engine" is GapUpStrategyWebSocket._on_live_data_update; cb1 and cb2 stand
\* for other consumers (the on_data loggers of main.py and of the test), and
\* "faulty" for a consumer whose callback raises.
Callbacks == {"engine", "cb1", "cb2", "faulty"}

Range(f) == {f[k] : k \in DOMAIN f}

Count(cbs, c) == Cardinality({k \in DOMAIN cbs : cbs[k] = c})

NoCall == [op |-> "none", on |-> "none", id |-> 0, ret |-> FALSE]

Call(op, on, id, ret) == [op |-> op, on |-> on, id |-> id, ret |-> ret]

\* GapUpStrategyWebSocket._on_live_data_update, applied to a quote view
OnLiveDataUpdate(view, symbol, quote) == [view EXCEPT ![symbol] = quote]

\* the callback "faulty" raises an Exception whenever it is called; the engine's
\* _on_live_data_update holds its own errors and does not raise
Raises(c) == c = "faulty"

\* A dispatch loop whose error handler is around the loop: the callbacks
\* registered after one that raises are not called
InvokedUntilError(cbs) ==
  IF \E k \in 1..Len(cbs) : Raises(cbs[k])
  THEN SubSeq(cbs, 1, CHOOSE k \in 1..Len(cbs) :
                        Raises(cbs[k]) /\ \A h \in 1..(k - 1) : ~Raises(cbs[h]))
  ELSE cbs

\* "try: callback(our_symbol, live_quote) except Exception: logger.error(...)"
\* inside the for loop: the callbacks that are called for one update
Invoked(cbs) == cbs

\* "for callback in self.data_callbacks: callback(our_symbol, live_quote)"
NotifyCallbacks(cbs, symbol, quote, kind, id) ==
  /\ live_quotes' = IF "engine" \in Range(Invoked(cbs))
                    THEN OnLiveDataUpdate(live_quotes, symbol, quote)
                    ELSE live_quotes
  /\ delivered' = [c \in Callbacks |-> Count(Invoked(cbs), c)]
  /\ last_src' = <<kind, id>>

\* ------------------------------------------- FyersWebSocketService (streaming)
\* connect(), up to the start of the wait loop: a new vendor socket is built
\* with the channel's handlers and its connection thread is started.
WsConnectCall(i) ==
  /\ ws_pc[i] = "idle"
  /\ n_sock < MaxSock
  /\ n_sock' = n_sock + 1
  /\ sock_owner' = [sock_owner EXCEPT ![n_sock + 1] = i]
  /\ sock_state' = [sock_state EXCEPT ![n_sock + 1] = "connecting"]
  /\ ws_fyers_socket' = [ws_fyers_socket EXCEPT ![i] = n_sock + 1]
  /\ ws_pc' = [ws_pc EXCEPT ![i] = "wait"]
  /\ ws_waited' = [ws_waited EXCEPT ![i] = 0]
  /\ ws_ret' = [ws_ret EXCEPT ![i] = "none"]
  /\ ws_timed_out' = [ws_timed_out EXCEPT ![i] = FALSE]
  /\ ws_link' = [ws_link EXCEPT ![i] = "fresh"]
  /\ UNCHANGED <<ws_is_connected, ws_reconnect_count, ws_subscribed_symbols,
                 ws_live_quotes, ws_data_callbacks, ws_sent, sock_attempts>>

\* connect() when building the socket raises: "except Exception: return False"
WsConnectRaises(i) ==
  /\ ws_pc[i] = "idle"
  /\ ws_ret' = [ws_ret EXCEPT ![i] = "false"]
  /\ ws_timed_out' = [ws_timed_out EXCEPT ![i] = FALSE]
  /\ UNCHANGED <<ws_is_connected, ws_reconnect_count, ws_subscribed_symbols,
                 ws_live_quotes, ws_data_callbacks, ws_fyers_socket, ws_pc, ws_waited,
                 ws_link, ws_sent, sockVars>>

\* one evaluation of "while not self.is_connected and elapsed < timeout: sleep(0.1)"
WsWait(i) ==
  /\ ws_pc[i] = "wait"
  /\ IF ws_is_connected[i]
     THEN /\ ws_pc' = [ws_pc EXCEPT ![i] = "check"]
          /\ UNCHANGED <<ws_waited, ws_timed_out>>
     ELSE IF ws_waited[i] >= MaxPolls
     THEN /\ ws_pc' = [ws_pc EXCEPT ![i] = "check"]
          /\ ws_timed_out' = [ws_timed_out EXCEPT ![i] = TRUE]
          /\ UNCHANGED ws_waited
     ELSE /\ ws_waited' = [ws_waited EXCEPT ![i] = @ + 1]
          /\ UNCHANGED <<ws_pc, ws_timed_out>>
  /\ UNCHANGED <<ws_is_connected, ws_reconnect_count, ws_subscribed_symbols,
                 ws_live_quotes, ws_data_callbacks, ws_fyers_socket, ws_ret,
                 ws_link, ws_sent, sockVars>>

\* A connect() that reports success whatever the flag says
WsConnectResultAlwaysTrue(i) == "true"

\* "if self.is_connected: return True else: return False"
WsConnectResult(i) == IF ws_is_connected[i] THEN "true" ELSE "false"

\* the call returns what it found; its locals are gone
WsConnectReturn(i) ==
  /\ ws_pc[i] = "check"
  /\ ws_ret' = [ws_ret EXCEPT ![i] = WsConnectResult(i)]
  /\ ws_pc' = [ws_pc EXCEPT ![i] = "idle"]
  /\ ws_waited' = [ws_waited EXCEPT ![i] = 0]
  /\ UNCHANGED <<ws_is_connected, ws_reconnect_count, ws_subscribed_symbols,
                 ws_live_quotes, ws_data_callbacks, ws_fyers_socket,
                 ws_timed_out, ws_link, ws_sent, sockVars>>

\* disconnect(): the flag is cleared and the current socket, if any, is closed
WsDisconnect(i) ==
  /\ ws_is_connected' = [ws_is_connected EXCEPT ![i] = FALSE]
  /\ sock_state' = IF ws_fyers_socket[i] # 0
                   THEN [sock_state EXCEPT ![ws_fyers_socket[i]] = "stopped"]
                   ELSE sock_state
  /\ ws_link' = [ws_link EXCEPT ![i] = "fresh"]
  /\ UNCHANGED <<ws_reconnect_count, ws_subscribed_symbols, ws_live_quotes,
                 ws_data_callbacks, ws_fyers_socket, ws_pc, ws_waited, ws_ret,
                 ws_timed_out, ws_sent, n_sock, sock_owner, sock_attempts>>

\* subscribe_symbols(symbols): its return value and its effect on the channel;
\* sent says whether fyers_socket.subscribe(...) went through (it raises otherwise)
WsSubscribeRet(i, sent) == ws_is_connected[i] /\ sent

\* A subscribe_symbols without the "if not self.is_connected" guard
WsSubscribeUnguarded(i, symbols, sent) ==
  /\ ws_subscribed_symbols' = [ws_subscribed_symbols EXCEPT ![i] = @ \cup symbols]
  /\ IF sent
     THEN /\ ws_sent' = [ws_sent EXCEPT ![i] = @ \cup {WsToVenue(s) : s \in symbols}]
          /\ ws_link' = [ws_link EXCEPT ![i] = "fresh"]
     ELSE UNCHANGED <<ws_sent, ws_link>>

WsSubscribe(i, symbols, sent) ==
  IF ~ws_is_connected[i]
  THEN UNCHANGED <<ws_subscribed_symbols, ws_sent, ws_link>>
  ELSE /\ ws_subscribed_symbols' = [ws_subscribed_symbols EXCEPT ![i] = @ \cup symbols]
       /\ IF sent
          THEN /\ ws_sent' = [ws_sent EXCEPT ![i] = @ \cup {WsToVenue(s) : s \in symbols}]
               /\ ws_link' = [ws_link EXCEPT ![i] = "fresh"]
          ELSE UNCHANGED <<ws_sent, ws_link>>

\* unsubscribe_symbols(symbols)
WsUnsubscribeRet(i, sent) == ws_is_connected[i] /\ sent

WsUnsubscribe(i, symbols, sent) ==
  IF ~ws_is_connected[i]
  THEN UNCHANGED <<ws_subscribed_symbols, ws_sent, ws_link>>
  ELSE /\ ws_subscribed_symbols' = [ws_subscribed_symbols EXCEPT ![i] = @ \ symbols]
       /\ UNCHANGED <<ws_sent, ws_link>>

\* add_data_callback(callback)
WsAddDataCallback(cbs, i, c) == [cbs EXCEPT ![i] = Append(@, c)]

\* get_live_quote(symbol)
WsGetLiveQuote(i, symbol) == ws_live_quotes[i][symbol]

\* _on_open
WsOnOpen(i) ==
  /\ ws_is_connected' = [ws_is_connected EXCEPT ![i] = TRUE]
  /\ ws_reconnect_count' = [ws_reconnect_count EXCEPT ![i] = 0]
  /\ ws_sent' = [ws_sent EXCEPT ![i] = {}]
  /\ ws_link' = [ws_link EXCEPT ![i] = IF @ = "dropped" THEN "resumed" ELSE @]

\* _on_close and _on_error: both only clear the flag
WsOnClose(i) ==
  /\ ws_is_connected' = [ws_is_connected EXCEPT ![i] = FALSE]
  /\ ws_link' = [ws_link EXCEPT ![i] = IF ws_is_connected[i] THEN "dropped" ELSE @]
  /\ UNCHANGED <<ws_reconnect_count, ws_sent>>

\* An inbound frame: a dict or anything else; a dict has a venue symbol ("" when
\* the key is missing) and may lack the last-price keys.
Frame(kind, symbol, has_ltp, ltp, prev_close) ==
  [kind |-> kind, symbol |-> symbol, has_ltp |-> has_ltp, ltp |-> ltp,
   prev_close |-> prev_close]

\* data.get('ltp', data.get('last_price', 0))
FrameLtp(frame) == IF frame.has_ltp THEN frame.ltp ELSE 0

\* _process_fyers_data: whether the frame is taken as a quote update
WsAccepts(frame) == frame.kind = "dict" /\ WsToInternal(frame.symbol) # ""

WsFrameQuote(frame) ==
  LiveQuote(WsToInternal(frame.symbol), FrameLtp(frame), frame.prev_close)

\* "for callback in self.data_callbacks: callback(our_symbol, live_quote)", one
\* call after the other: what each callback finds when it is called, in the
\* channel's store (written before the loop) and in the engine's view, and
\* the view the loop leaves behind
RECURSIVE RunCallbacksReversed(_, _, _, _, _)
RunCallbacksReversed(cbs, store, view, symbol, quote) ==
  IF cbs = <<>>
  THEN [view |-> view, log |-> <<>>]
  ELSE LET c     == cbs[Len(cbs)]
           view1 == IF c = "engine" THEN OnLiveDataUpdate(view, symbol, quote) ELSE view
           rest  == RunCallbacksReversed(SubSeq(cbs, 1, Len(cbs) - 1), store, view1,
                                         symbol, quote)
       IN [view |-> rest.view,
           log  |-> <<[callback |-> c, store |-> store[symbol],
                       view |-> view[symbol]]>> \o rest.log]

RECURSIVE RunCallbacks(_, _, _, _, _)
RunCallbacks(cbs, store, view, symbol, quote) ==
  IF cbs = <<>>
  THEN [view |-> view, log |-> <<>>]
  ELSE LET c     == Head(cbs)
           view1 == IF c = "engine" THEN OnLiveDataUpdate(view, symbol, quote) ELSE view
           rest  == RunCallbacks(Tail(cbs), store, view1, symbol, quote)
       IN [view |-> rest.view,
           log  |-> <<[callback |-> c, store |-> store[symbol],
                       view |-> view[symbol]]>> \o rest.log]

\* A _process_fyers_data that does not overwrite a quote it already holds
WsOnMessageKeepFirst(i, frame) ==
  IF WsAccepts(frame)
  THEN /\ ws_live_quotes' = IF ws_live_quotes[i][WsToInternal(frame.symbol)] = NoQuote
                            THEN [ws_live_quotes EXCEPT
                                    ![i][WsToInternal(frame.symbol)] = WsFrameQuote(frame)]
                            ELSE ws_live_quotes
       /\ NotifyCallbacks(ws_data_callbacks[i], WsToInternal(frame.symbol),
                          WsFrameQuote(frame), "ws", i)
  ELSE UNCHANGED <<ws_live_quotes, live_quotes, delivered, last_src>>

\* _on_message / _process_fyers_data
WsOnMessage(i, frame) ==
  IF WsAccepts(frame)
  THEN /\ ws_live_quotes' = [ws_live_quotes EXCEPT
                               ![i][WsToInternal(frame.symbol)] = WsFrameQuote(frame)]
       /\ NotifyCallbacks(ws_data_callbacks[i], WsToInternal(frame.symbol),
                          WsFrameQuote(frame), "ws", i)
  ELSE UNCHANGED <<ws_live_quotes, live_quotes, delivered, last_src>>

\* ------------------------------------------------------------ vendor socket
\* The connection thread of socket k gets through: on_connect -> _on_open
SockOpen(k) ==
  /\ k <= n_sock /\ sock_state[k] = "connecting"
  /\ sock_state' = [sock_state EXCEPT ![k] = "open"]
  /\ sock_attempts' = [sock_attempts EXCEPT ![k] = 0]
  /\ WsOnOpen(sock_owner[k])
  /\ UNCHANGED <<ws_subscribed_symbols, ws_live_quotes, ws_data_callbacks,
                 ws_fyers_socket, ws_pc, ws_waited, ws_ret, ws_timed_out,
                 n_sock, sock_owner>>

\* The open socket k is closed by the venue: on_close -> _on_close
SockClose(k) ==
  /\ k <= n_sock /\ sock_state[k] = "open"
  /\ sock_state' = [sock_state EXCEPT ![k] = "closed"]
  /\ WsOnClose(sock_owner[k])
  /\ UNCHANGED <<ws_subscribed_symbols, ws_live_quotes, ws_data_callbacks,
                 ws_fyers_socket, ws_pc, ws_waited, ws_ret, ws_timed_out,
                 n_sock, sock_owner, sock_attempts>>

\* A transport error on socket k, connecting or open: on_error -> _on_error
SockError(k) ==
  /\ k <= n_sock /\ sock_state[k] \in {"connecting", "open"}
  /\ sock_state' = [sock_state EXCEPT ![k] = "closed"]
  /\ WsOnClose(sock_owner[k])
  /\ UNCHANGED <<ws_subscribed_symbols, ws_live_quotes, ws_data_callbacks,
                 ws_fyers_socket, ws_pc, ws_waited, ws_ret, ws_timed_out,
                 n_sock, sock_owner, sock_attempts>>

\* reconnect=True: the socket tries again while its retry budget lasts
SockRetry(k) ==
  /\ k <= n_sock /\ sock_state[k] = "closed"
  /\ IF sock_attempts[k] < reconnect_retry
     THEN /\ sock_state' = [sock_state EXCEPT ![k] = "connecting"]
          /\ sock_attempts' = [sock_attempts EXCEPT ![k] = @ + 1]
     ELSE /\ sock_state' = [sock_state EXCEPT ![k] = "failed"]
          /\ UNCHANGED sock_attempts
  /\ UNCHANGED <<ws_is_connected, ws_reconnect_count, ws_subscribed_symbols,
                 ws_live_quotes, ws_data_callbacks, ws_fyers_socket, ws_pc, ws_waited,
                 ws_ret, ws_timed_out, ws_link, ws_sent, n_sock, sock_owner>>

\* A frame arrives on the open socket k: on_message -> _on_message
SockMessage(k, frame) ==
  /\ k <= n_sock /\ sock_state[k] = "open"
  /\ WsOnMessage(sock_owner[k], frame)
  /\ UNCHANGED <<ws_is_connected, ws_reconnect_count, ws_subscribed_symbols,
                 ws_data_callbacks, ws_fyers_socket, ws_pc, ws_waited, ws_ret,
                 ws_timed_out, ws_link, ws_sent, sockVars>>

\* ---------------------------------------------- FallbackDataService (polling)
\* FallbackDataService.symbol_mapping: twelve instruments, of the model's these
FbMapped == {"TCS.NS", "INFY.NS", "HDFCBANK.NS", "RELIANCE.NS"}

\* self.symbol_mapping.get(s, s)
FbToVenue(s) == IF s \in FbMapped THEN FyersName(s) ELSE s

\* self.reverse_symbol_mapping.get(fyers_symbol): "" stands for None
FbToInternal(v) ==
  IF \E s \in FbMapped : FyersName(s) = v
  THEN CHOOSE s \in FbMapped : FyersName(s) = v
  ELSE ""

\* connect(): profile_ok says whether get_profile() answered 's' == 'ok' (any
\* other answer, or an exception, returns False and changes nothing)
FbConnect(j, profile_ok) ==
  IF profile_ok
  THEN /\ fb_is_connected' = [fb_is_connected EXCEPT ![j] = TRUE]
       /\ fb_threads' = [fb_threads EXCEPT ![j] = @ + 1]
  ELSE UNCHANGED <<fb_is_connected, fb_threads>>

\* what connect() returns: True after the probe answered 'ok', False otherwise
FbConnectRet(j, profile_ok) == profile_ok

\* A reply of fyers.quotes for one instrument
Response(status, symbol, ltp, prev_close) ==
  [s |-> status, symbol |-> symbol, ltp |-> ltp, prev_close |-> prev_close]

\* A _process_rest_quotes that calls the callbacks for every entry it stores
FbProcessRestQuotesAlways(j, r) ==
  LET our_symbol == FbToInternal(r.symbol)
      live_quote == LiveQuote(our_symbol, r.ltp, r.prev_close)
  IN IF our_symbol = ""
     THEN UNCHANGED <<fb_live_quotes, live_quotes, delivered, last_src>>
     ELSE /\ fb_live_quotes' = [fb_live_quotes EXCEPT ![j][our_symbol] = live_quote]
          /\ NotifyCallbacks(fb_data_callbacks[j], our_symbol, live_quote, "fb", j)

\* _process_rest_quotes for the entry of the reply
FbProcessRestQuotes(j, r) ==
  LET our_symbol == FbToInternal(r.symbol)
      live_quote == LiveQuote(our_symbol, r.ltp, r.prev_close)
      old_quote  == fb_live_quotes[j][our_symbol]
  IN IF our_symbol = ""
     THEN UNCHANGED <<fb_live_quotes, live_quotes, delivered, last_src>>
     ELSE /\ fb_live_quotes' = [fb_live_quotes EXCEPT ![j][our_symbol] = live_quote]
          /\ IF old_quote = NoQuote \/ old_quote.ltp # live_quote.ltp
             THEN NotifyCallbacks(fb_data_callbacks[j], our_symbol, live_quote, "fb", j)
             ELSE UNCHANGED <<live_quotes, delivered, last_src>>

\* A polling loop that gives the channel up when a request fails
FbPollDataTearsDown(j, r) ==
  /\ fb_threads[j] > 0
  /\ ~fb_stop_event[j] /\ fb_is_connected[j]
  /\ fb_subscribed_symbols[j] # {}
  /\ r.symbol \in {FbToVenue(s) : s \in fb_subscribed_symbols[j]}
  /\ IF r.s = "ok"
     THEN FbProcessRestQuotes(j, r) /\ UNCHANGED fb_is_connected
     ELSE /\ fb_is_connected' = [fb_is_connected EXCEPT ![j] = FALSE]
          /\ UNCHANGED <<fb_live_quotes, live_quotes, delivered, last_src>>
  /\ UNCHANGED <<n_fb, fb_stop_event, fb_subscribed_symbols,
                 fb_data_callbacks, fb_threads>>

\* one turn of the loop of _poll_data that fetches: _fetch_quotes asks for the
\* subscribed instruments and processes an 'ok' reply
FbPollData(j, r) ==
  /\ fb_threads[j] > 0
  /\ ~fb_stop_event[j] /\ fb_is_connected[j]
  /\ fb_subscribed_symbols[j] # {}
  /\ r.symbol \in {FbToVenue(s) : s \in fb_subscribed_symbols[j]}
  /\ IF r.s = "ok"
     THEN FbProcessRestQuotes(j, r)
     ELSE UNCHANGED <<fb_live_quotes, live_quotes, delivered, last_src>>
  /\ UNCHANGED <<n_fb, fb_is_connected, fb_stop_event, fb_subscribed_symbols,
                 fb_data_callbacks, fb_threads>>

\* the loop condition of _poll_data fails: the thread ends
FbPollExit(j) ==
  /\ fb_threads[j] > 0
  /\ fb_stop_event[j] \/ ~fb_is_connected[j]
  /\ fb_threads' = [fb_threads EXCEPT ![j] = @ - 1]
  /\ UNCHANGED <<n_fb, fb_is_connected, fb_stop_event, fb_subscribed_symbols,
                 fb_live_quotes, fb_data_callbacks>>

\* subscribe_symbols(symbols): always True
FbSubscribe(subs, j, symbols) == [subs EXCEPT ![j] = @ \cup symbols]

\* unsubscribe_symbols(symbols): always True
FbUnsubscribe(subs, j, symbols) == [subs EXCEPT ![j] = @ \ symbols]

\* add_data_callback(callback)
FbAddDataCallback(cbs, j, c) == [cbs EXCEPT ![j] = Append(@, c)]

\* get_live_quote(symbol)
FbGetLiveQuote(j, symbol) == fb_live_quotes[j][symbol]

\* disconnect()
FbDisconnect(j) ==
  /\ fb_stop_event' = [fb_stop_event EXCEPT ![j] = TRUE]
  /\ fb_is_connected' = [fb_is_connected EXCEPT ![j] = FALSE]

\* ------------------------------------------- HybridFyersDataService (gateway)
NoChannel == <<"none", 0>>

\* "self.fallback_service if self.using_fallback else self.primary_service"
ActiveService ==
  IF gw_using_fallback
  THEN IF gw_fallback_service # 0 THEN <<"fb", gw_fallback_service>> ELSE NoChannel
  ELSE IF gw_primary_service # 0 THEN <<"ws", gw_primary_service>> ELSE NoChannel

\* _setup_callbacks(service): every gateway callback is added to the service
SetupCallbacks(service_callbacks, callbacks) == service_callbacks \o callbacks

\* connect(), first part: a new FyersWebSocketService becomes primary_service
\* and its connect() is entered
GwConnectBegin ==
  /\ gw_pc = "idle"
  /\ n_ws < MaxSock
  /\ n_ws' = n_ws + 1
  /\ gw_primary_service' = n_ws + 1
  /\ WsConnectCall(n_ws + 1)
  /\ gw_pc' = "primary"
  /\ gw_ret' = "none"
  /\ gw_stream' = "none"
  /\ gw_poll' = "none"
  /\ last_call' = NoCall
  /\ last_src' = NoChannel
  /\ delivered' = [c \in Callbacks |-> 0]
  /\ UNCHANGED <<gw_fallback_service, gw_using_fallback, gw_is_connected,
                 gw_subscribed_symbols, gw_data_callbacks, gw_selected,
                 live_quotes, fbVars>>

\* connect() is inside primary_service.connect(): its wait loop
GwPrimaryWait ==
  /\ gw_pc = "primary"
  /\ WsWait(gw_primary_service)
  /\ UNCHANGED <<n_ws, consVars, fbVars, gwVars>>

\* primary_service.connect() returns
GwPrimaryReturn ==
  /\ gw_pc = "primary"
  /\ WsConnectReturn(gw_primary_service)
  /\ gw_stream' = WsConnectResult(gw_primary_service)
  /\ gw_pc' = "returned"
  /\ UNCHANGED <<n_ws, consVars, fbVars, gw_primary_service, gw_fallback_service,
                 gw_using_fallback, gw_is_connected, gw_subscribed_symbols,
                 gw_data_callbacks, gw_ret, gw_poll, gw_selected>>

\* connect(), the rest: on a true answer the callbacks are set up on
\* primary_service and connect() returns True; otherwise a new
\* FallbackDataService becomes fallback_service and its connect() decides
GwConnectFinish(profile_ok) ==
  /\ gw_pc = "returned"
  /\ gw_pc' = "idle"
  /\ IF gw_stream = "true"
     THEN /\ gw_is_connected' = TRUE
          /\ ws_data_callbacks' =
               [ws_data_callbacks EXCEPT ![gw_primary_service] =
                  SetupCallbacks(@, gw_data_callbacks)]
          /\ gw_ret' = "true"
          /\ gw_selected' = <<"ws", gw_primary_service>>
          /\ UNCHANGED <<gw_fallback_service, gw_using_fallback, gw_poll, fbVars>>
     ELSE /\ n_fb < MaxSock
          /\ n_fb' = n_fb + 1
          /\ gw_fallback_service' = n_fb + 1
          /\ FbConnect(n_fb + 1, profile_ok)
          /\ gw_poll' = IF profile_ok THEN "true" ELSE "false"
          /\ IF profile_ok
             THEN /\ gw_using_fallback' = TRUE
                  /\ gw_is_connected' = TRUE
                  /\ fb_data_callbacks' =
                       [fb_data_callbacks EXCEPT ![n_fb + 1] =
                          SetupCallbacks(@, gw_data_callbacks)]
                  /\ gw_ret' = "true"
                  /\ gw_selected' = <<"fb", n_fb + 1>>
             ELSE /\ gw_ret' = "false"
                  /\ UNCHANGED <<gw_using_fallback, gw_is_connected,
                                 fb_data_callbacks, gw_selected>>
          /\ UNCHANGED <<ws_data_callbacks, fb_stop_event, fb_subscribed_symbols,
                         fb_live_quotes>>
  /\ UNCHANGED <<n_ws, ws_is_connected, ws_reconnect_count, ws_subscribed_symbols,
                 ws_live_quotes, ws_fyers_socket, ws_pc, ws_waited, ws_ret,
                 ws_timed_out, ws_link, ws_sent, sockVars, consVars,
                 gw_primary_service, gw_subscribed_symbols, gw_data_callbacks,
                 gw_stream>>

\* subscribe_symbols(symbols)
GwSubscribe(symbols, sent) ==
  /\ gw_pc = "idle"
  /\ LET active == ActiveService
     IN IF active = NoChannel
        THEN /\ last_call' = Call("subscribe", "gw", 0, FALSE)
             /\ UNCHANGED <<gw_subscribed_symbols, ws_subscribed_symbols, ws_sent,
                            ws_link, fb_subscribed_symbols>>
        ELSE /\ gw_subscribed_symbols' = gw_subscribed_symbols \cup symbols
             /\ IF active[1] = "ws"
                THEN /\ WsSubscribe(active[2], symbols, sent)
                     /\ last_call' = Call("subscribe", "gw", 0,
                                          WsSubscribeRet(active[2], sent))
                     /\ UNCHANGED fb_subscribed_symbols
                ELSE /\ fb_subscribed_symbols' =
                          FbSubscribe(fb_subscribed_symbols, active[2], symbols)
                     /\ last_call' = Call("subscribe", "gw", 0, TRUE)
                     /\ UNCHANGED <<ws_subscribed_symbols, ws_sent, ws_link>>
  /\ UNCHANGED <<n_ws, ws_is_connected, ws_reconnect_count, ws_live_quotes,
                 ws_data_callbacks, ws_fyers_socket, ws_pc, ws_waited, ws_ret,
                 ws_timed_out, sockVars, live_quotes, delivered, last_src,
                 n_fb, fb_is_connected, fb_stop_event, fb_live_quotes,
                 fb_data_callbacks, fb_threads, gw_primary_service,
                 gw_fallback_service, gw_using_fallback, gw_is_connected,
                 gw_data_callbacks, gw_pc, gw_ret, gw_stream, gw_poll, gw_selected>>

\* unsubscribe_symbols(symbols)
GwUnsubscribe(symbols, sent) ==
  /\ gw_pc = "idle"
  /\ LET active == ActiveService
     IN IF active = NoChannel
        THEN /\ last_call' = Call("unsubscribe", "gw", 0, FALSE)
             /\ UNCHANGED <<gw_subscribed_symbols, ws_subscribed_symbols, ws_sent,
                            ws_link, fb_subscribed_symbols>>
        ELSE /\ gw_subscribed_symbols' = gw_subscribed_symbols \ symbols
             /\ IF active[1] = "ws"
                THEN /\ WsUnsubscribe(active[2], symbols, sent)
                     /\ last_call' = Call("unsubscribe", "gw", 0,
                                          WsUnsubscribeRet(active[2], sent))
                     /\ UNCHANGED fb_subscribed_symbols
                ELSE /\ fb_subscribed_symbols' =
                          FbUnsubscribe(fb_subscribed_symbols, active[2], symbols)
                     /\ last_call' = Call("unsubscribe", "gw", 0, TRUE)
                     /\ UNCHANGED <<ws_subscribed_symbols, ws_sent, ws_link>>
  /\ UNCHANGED <<n_ws, ws_is_connected, ws_reconnect_count, ws_live_quotes,
                 ws_data_callbacks, ws_fyers_socket, ws_pc, ws_waited, ws_ret,
                 ws_timed_out, sockVars, live_quotes, delivered, last_src,
                 n_fb, fb_is_connected, fb_stop_event, fb_live_quotes,
                 fb_data_callbacks, fb_threads, gw_primary_service,
                 gw_fallback_service, gw_using_fallback, gw_is_connected,
                 gw_data_callbacks, gw_pc, gw_ret, gw_stream, gw_poll, gw_selected>>

\* add_data_callback(callback); the consumers' record of the latest update
\* starts afresh with the new registration
GwAddDataCallback(c) ==
  /\ gw_pc = "idle"
  /\ gw_data_callbacks' = Append(gw_data_callbacks, c)
  /\ LET active == ActiveService
     IN /\ ws_data_callbacks' = IF active[1] = "ws"
                                THEN WsAddDataCallback(ws_data_callbacks, active[2], c)
                                ELSE ws_data_callbacks
        /\ fb_data_callbacks' = IF active[1] = "fb"
                                THEN FbAddDataCallback(fb_data_callbacks, active[2], c)
                                ELSE fb_data_callbacks
  /\ last_src' = NoChannel
  /\ delivered' = [d \in Callbacks |-> 0]
  /\ UNCHANGED <<n_ws, ws_is_connected, ws_reconnect_count, ws_subscribed_symbols,
                 ws_live_quotes, ws_fyers_socket, ws_pc, ws_waited, ws_ret,
                 ws_timed_out, ws_link, ws_sent, sockVars, live_quotes, last_call,
                 n_fb, fb_is_connected, fb_stop_event, fb_subscribed_symbols,
                 fb_live_quotes, fb_threads, gw_primary_service,
                 gw_fallback_service, gw_using_fallback, gw_is_connected,
                 gw_subscribed_symbols, gw_pc, gw_ret, gw_stream, gw_poll,
                 gw_selected>>

\* get_live_quote(symbol)
GwGetLiveQuote(symbol) ==
  LET active == ActiveService
  IN IF active[1] = "ws" THEN WsGetLiveQuote(active[2], symbol)
     ELSE IF active[1] = "fb" THEN FbGetLiveQuote(active[2], symbol)
     ELSE NoQuote

\* get_all_live_quotes()
GwGetAllLiveQuotes ==
  LET active == ActiveService
  IN IF active[1] = "ws" THEN ws_live_quotes[active[2]]
     ELSE IF active[1] = "fb" THEN fb_live_quotes[active[2]]
     ELSE EmptyQuotes

\* disconnect(): both services, when present, are disconnected
GwDisconnect ==
  /\ gw_pc = "idle"
  /\ IF gw_primary_service # 0
     THEN /\ WsDisconnect(gw_primary_service)
          /\ UNCHANGED n_ws
     ELSE UNCHANGED <<wsVars, sockVars>>
  /\ IF gw_fallback_service # 0
     THEN FbDisconnect(gw_fallback_service)
     ELSE UNCHANGED <<fb_stop_event, fb_is_connected>>
  /\ gw_is_connected' = FALSE
  /\ UNCHANGED <<consVars, n_fb, fb_subscribed_symbols, fb_live_quotes,
                 fb_data_callbacks, fb_threads, gw_primary_service,
                 gw_fallback_service, gw_using_fallback, gw_subscribed_symbols,
                 gw_data_callbacks, gw_pc, gw_ret, gw_stream, gw_poll, gw_selected>>

\* ------------------------------------------------------------ initial states
WsInit ==
  /\ ws_is_connected = [i \in WsIds |-> FALSE]
  /\ ws_reconnect_count = [i \in WsIds |-> 0]
  /\ ws_subscribed_symbols = [i \in WsIds |-> {}]
  /\ ws_live_quotes = [i \in WsIds |-> EmptyQuotes]
  /\ ws_fyers_socket = [i \in WsIds |-> 0]
  /\ ws_pc = [i \in WsIds |-> "idle"]
  /\ ws_waited = [i \in WsIds |-> 0]
  /\ ws_ret = [i \in WsIds |-> "none"]
  /\ ws_timed_out = [i \in WsIds |-> FALSE]
  /\ ws_link = [i \in WsIds |-> "fresh"]
  /\ ws_sent = [i \in WsIds |-> {}]

SockInit ==
  /\ n_sock = 0
  /\ sock_owner = [k \in SockIds |-> 0]
  /\ sock_state = [k \in SockIds |-> "none"]
  /\ sock_attempts = [k \in SockIds |-> 0]

FbInit ==
  /\ n_fb = 0
  /\ fb_is_connected = [j \in FbIds |-> FALSE]
  /\ fb_stop_event = [j \in FbIds |-> FALSE]
  /\ fb_subscribed_symbols = [j \in FbIds |-> {}]
  /\ fb_live_quotes = [j \in FbIds |-> EmptyQuotes]
  /\ fb_data_callbacks = [j \in FbIds |-> <<>>]
  /\ fb_threads = [j \in FbIds |-> 0]

GwInit ==
  /\ gw_primary_service = 0
  /\ gw_fallback_service = 0
  /\ gw_using_fallback = FALSE
  /\ gw_is_connected = FALSE
  /\ gw_subscribed_symbols = {}
  /\ gw_data_callbacks = <<>>
  /\ gw_pc = "idle"
  /\ gw_ret = "none"
  /\ gw_stream = "none"
  /\ gw_poll = "none"
  /\ gw_selected = <<"none", 0>>

\* how a run_strategy_cycle went, and the instruments whose open position was
\* at its stop or target when the cycle began
CycleNote(outcome, due) == [outcome |-> outcome, due |-> due]

NoCycle == CycleNote("none", {})

\* ------------------------------------------------ TechnicalAnalysisService
\* A float of the analysis: a number (in hundredths), nan or +inf
Num(v) == [kind |-> "num", v |-> v]

NaN == [kind |-> "nan", v |-> 0]

Inf == [kind |-> "inf", v |-> 0]

\* a / b for a >= 0 on numpy floats, in hundredths: no error on a zero divisor
FDiv(a, b) ==
  IF b # 0 THEN Num((a * 100) \div b)
  ELSE IF a = 0 THEN NaN ELSE Inf

\* x + y
FAdd(x, y) ==
  IF x.kind = "nan" \/ y.kind = "nan" THEN NaN
  ELSE IF x.kind = "inf" \/ y.kind = "inf" THEN Inf
  ELSE Num(x.v + y.v)

\* x * n / d for a plain number n / d > 0
FScale(x, n, d) == IF x.kind = "num" THEN Num((x.v * n) \div d) ELSE x

\* Python's max(x, n): n only if n > x, which is false for nan
PyMax(x, n) == IF x.kind = "num" /\ n > x.v THEN Num(n) ELSE x

\* Python's min(x, n): n only if n < x, which is false for nan
PyMin(x, n) ==
  IF x.kind = "inf" \/ (x.kind = "num" /\ n < x.v) THEN Num(n) ELSE x

\* min(max(score, 0), 100)
ClipScore(score) == PyMin(PyMax(score, 0), 10000)

\* what stock.history(...) gives: it raises (ok = FALSE), or returns daily bars
History(ok, bars) == [ok |-> ok, bars |-> bars]

Bar(open, close, volume) == [open |-> open, close |-> close, volume |-> volume]

period_days == 5

\* hist.tail(period_days)
RecentData(bars) == SubSeq(bars, Len(bars) - period_days + 1, Len(bars))

\* sum(...) of a column over the rows a..b
RECURSIVE SumOver(_, _, _)
SumOver(f, a, b) == IF a > b THEN 0 ELSE f[a] + SumOver(f, a + 1, b)

\* _calculate_rsi over the closes of the recent bars: the rolling window is
\* min(14, len) = all of them, the first difference counts as 0
CalculateRsi(recent) ==
  LET n       == Len(recent)
      Up(i)   == IF recent[i].close > recent[i - 1].close
                 THEN recent[i].close - recent[i - 1].close ELSE 0
      Down(i) == IF recent[i].close < recent[i - 1].close
                 THEN recent[i - 1].close - recent[i].close ELSE 0
      gain    == SumOver([i \in 2..n |-> Up(i)], 2, n)
      loss    == SumOver([i \in 2..n |-> Down(i)], 2, n)
      rs      == FDiv(gain, loss)
      rsi     == CASE rs.kind = "nan" -> NaN
                   [] rs.kind = "inf" -> Num(10000)
                   [] OTHER -> Num(10000 - 1000000 \div (100 + rs.v))
  IN IF rsi.kind = "nan" THEN Num(5000) ELSE rsi

\* calculate_selling_pressure_score from what stock.history answered
CalculateSellingPressureScore(hist) ==
  IF ~hist.ok THEN Num(0)
  ELSE IF Len(hist.bars) < period_days THEN Num(0)
  ELSE
    LET recent   == RecentData(hist.bars)
        n        == Len(recent)
        Red(i)   == IF recent[i].close < recent[i].open THEN 1 ELSE 0
        Lower(i) == IF recent[i].close < recent[i - 1].close THEN 1 ELSE 0
        Vol(i)   == recent[i].volume
        decline  == Num(((recent[1].close - recent[n].close) * 3000) \div recent[1].close)
        red      == Num((SumOver([i \in 1..n |-> Red(i)], 1, n) * 2000) \div n)
        \* tail(2).mean() / head(3).mean(), times 20 * 0.2
        volumes  == [i \in 1..n |-> Vol(i)]
        trend    == FScale(FDiv(SumOver(volumes, n - 1, n) * 3,
                                SumOver(volumes, 1, 3) * 2), 4, 1)
        lower    == Num((SumOver([i \in 2..n |-> Lower(i)], 2, n) * 2000) \div (n - 1))
        rsi      == Num((10000 - CalculateRsi(recent).v) \div 10)
    IN ClipScore(FAdd(FAdd(FAdd(FAdd(decline, red), trend), lower), rsi))

\* A calculate_volume_ratio whose failure is let through as a very low ratio
CalculateVolumeRatioFailingLow(hist, estimated_full_day_volume) ==
  IF ~hist.ok THEN 0
  ELSE IF Len(hist.bars) = 0 THEN 10
  ELSE LET Vol(i) == hist.bars[i].volume
           total  == SumOver([i \in 1..Len(hist.bars) |-> Vol(i)], 1, Len(hist.bars))
       IN IF total > 0
          THEN (estimated_full_day_volume * Len(hist.bars) * 10) \div total
          ELSE 10

\* calculate_volume_ratio, in tenths, from what stock.history answered and the
\* full-day volume estimated from the live quote and the time of day
CalculateVolumeRatio(hist, estimated_full_day_volume) ==
  IF ~hist.ok THEN 10
  ELSE IF Len(hist.bars) = 0 THEN 10
  ELSE LET Vol(i) == hist.bars[i].volume
           total  == SumOver([i \in 1..Len(hist.bars) |-> Vol(i)], 1, Len(hist.bars))
       IN IF total > 0
          THEN (estimated_full_day_volume * Len(hist.bars) * 10) \div total
          ELSE 10

\* the answers of one pair of calls, and the histories behind them
Analysis(pressure_hist, volume_hist, selling_pressure, volume_ratio) ==
  [pressure_hist |-> pressure_hist, volume_hist |-> volume_hist,
   selling_pressure |-> selling_pressure, volume_ratio |-> volume_ratio]

NoAnalysis == Analysis(History(FALSE, <<>>), History(FALSE, <<>>), Num(0), 0)

\* the default configuration and nothing observed yet
ObsInit ==
  /\ max_reconnect_attempts = reconnect_retry
  /\ dispatch_log = <<>>
  /\ phase_quotes = EmptyQuotes
  /\ last_cycle = NoCycle
  /\ run_pc = "none"
  /\ clock = "signal"
  /\ analysis = NoAnalysis

ConsInit ==
  /\ live_quotes = EmptyQuotes
  /\ delivered = [c \in Callbacks |-> 0]
  /\ last_src = <<"none", 0>>
  /\ last_call = NoCall

\* ---------------------------------------------- the streaming channel alone
\* One FyersWebSocketService, as GapUpStrategyWebSocket.__init__ builds it: the
\* engine's callback is registered, nothing is connected.  The caller's
\* operations are the public methods; a caller is blocked while connect() runs.
MaxCallbacks == 1   \* callbacks registered on one object

StreamSubscribeSets == {{"TCS.NS", "INFY.NS"}}

StreamUnsubscribeSets == {{"INFY.NS"}}

StreamFrames ==
  { Frame("dict", "NSE:TCS-EQ", TRUE, 101000, 100000),
    Frame("other", "", FALSE, 0, 0) }

EngInit ==
  /\ positions = {}
  /\ daily_pnl = 0
  /\ total_pnl = 0
  /\ eng_pc = "idle"
  /\ available_slots = 0
  /\ signals = <<>>
  /\ gen_next = 0
  /\ exec_next = 0
  /\ n_closed = 0
  /\ realized = 0
  /\ last_closed = {}

StreamInit ==
  /\ ObsInit
  /\ n_ws = 1
  /\ EngInit
  /\ FbInit
  /\ GwInit
  /\ WsInit
  /\ ws_data_callbacks = [i \in WsIds |-> IF i = 1 THEN <<"engine">> ELSE <<>>]
  /\ SockInit
  /\ ConsInit

StConnect ==
  /\ WsConnectCall(1)
  /\ UNCHANGED last_call
  /\ UNCHANGED <<n_ws, live_quotes, delivered, last_src, engVars, fbVars, gwVars, obsVars>>

StConnectRaises ==
  /\ WsConnectRaises(1)
  /\ UNCHANGED last_call
  /\ UNCHANGED <<n_ws, live_quotes, delivered, last_src, engVars, fbVars, gwVars, obsVars>>

StWait == WsWait(1) /\ UNCHANGED <<n_ws, consVars, engVars, fbVars, gwVars, obsVars>>

StConnectReturn ==
  /\ WsConnectReturn(1)
  /\ UNCHANGED last_call
  /\ UNCHANGED <<n_ws, live_quotes, delivered, last_src, engVars, fbVars, gwVars, obsVars>>

StDisconnect ==
  /\ ws_pc[1] = "idle"
  /\ WsDisconnect(1)
  /\ UNCHANGED last_call
  /\ UNCHANGED <<n_ws, live_quotes, delivered, last_src, engVars, fbVars, gwVars, obsVars>>

StSubscribe ==
  /\ ws_pc[1] = "idle"
  /\ \E symbols \in StreamSubscribeSets, sent \in BOOLEAN :
       /\ WsSubscribe(1, symbols, sent)
       /\ last_call' = Call("subscribe", "ws", 1, WsSubscribeRet(1, sent))
  /\ UNCHANGED <<n_ws, ws_is_connected, ws_reconnect_count, ws_live_quotes,
                 ws_data_callbacks, ws_fyers_socket, ws_pc, ws_waited, ws_ret,
                 ws_timed_out, sockVars, live_quotes, delivered, last_src, engVars, fbVars, gwVars, obsVars>>

StUnsubscribe ==
  /\ ws_pc[1] = "idle"
  /\ \E symbols \in StreamUnsubscribeSets, sent \in BOOLEAN :
       /\ WsUnsubscribe(1, symbols, sent)
       /\ last_call' = Call("unsubscribe", "ws", 1, WsUnsubscribeRet(1, sent))
  /\ UNCHANGED <<n_ws, ws_is_connected, ws_reconnect_count, ws_live_quotes,
                 ws_data_callbacks, ws_fyers_socket, ws_pc, ws_waited, ws_ret,
                 ws_timed_out, sockVars, live_quotes, delivered, last_src, engVars, fbVars, gwVars, obsVars>>

StAddCallback ==
  /\ ws_pc[1] = "idle"
  /\ Len(ws_data_callbacks[1]) < MaxCallbacks
  /\ ws_data_callbacks' = WsAddDataCallback(ws_data_callbacks, 1, "cb1")
  /\ UNCHANGED last_call
  /\ UNCHANGED <<n_ws, ws_is_connected, ws_reconnect_count, ws_subscribed_symbols,
                 ws_live_quotes, ws_fyers_socket, ws_pc, ws_waited, ws_ret,
                 ws_timed_out, ws_link, ws_sent, sockVars, live_quotes, delivered,
                 last_src, engVars, fbVars, gwVars, obsVars>>

StSockOpen ==
  \E k \in SockIds : SockOpen(k) /\ UNCHANGED <<n_ws, consVars, engVars, fbVars, gwVars, obsVars>>

StSockClose ==
  \E k \in SockIds : SockClose(k) /\ UNCHANGED <<n_ws, consVars, engVars, fbVars, gwVars, obsVars>>

StSockError ==
  \E k \in SockIds : SockError(k) /\ UNCHANGED <<n_ws, consVars, engVars, fbVars, gwVars, obsVars>>

StSockRetry ==
  \E k \in SockIds : SockRetry(k) /\ UNCHANGED <<n_ws, consVars, engVars, fbVars, gwVars, obsVars>>

StSockMessage ==
  \E k \in SockIds, frame \in StreamFrames :
    SockMessage(k, frame) /\ UNCHANGED <<n_ws, last_call, engVars, fbVars, gwVars, obsVars>>

\* The connection life cycle of the channel: the caller's connect, disconnect,
\* subscribe and unsubscribe against the events of its vendor sockets.
StreamNext ==
  \/ StConnect \/ StConnectRaises \/ StWait \/ StConnectReturn \/ StDisconnect
  \/ StSubscribe \/ StUnsubscribe
  \/ StSockOpen \/ StSockClose \/ StSockError \/ StSockRetry

SpecStream == StreamInit /\ [][StreamNext]_vars

\* connect() and the life of the sockets, without the subscriptions
ConnectNext ==
  \/ StConnect \/ StConnectRaises \/ StWait \/ StConnectReturn \/ StDisconnect
  \/ StSockOpen \/ StSockClose \/ StSockError \/ StSockRetry

SpecConnect == StreamInit /\ [][ConnectNext]_vars

\* The caller's thread keeps running: the wait loop's sleep returns and the
\* statement after the loop is executed.
SpecConnectFair == SpecConnect /\ WF_vars(StWait) /\ WF_vars(StConnectReturn)

\* ------------------------------------------------ GapUpStrategyWebSocket
\* StrategyConfig defaults.  Percentages carrying one decimal are held times
\* ten, the gap threshold in hundredths of a percent, confidence times 10000.
portfolio_value      == 1000000
risk_per_trade_pct   == 1
max_positions        == 3
min_gap_percentage   == 50
min_selling_pressure == 40
min_volume_ratio     == 12
min_confidence       == 6000
stop_loss_pct        == 15
target_pct           == 30

MaxCloses == 1      \* close events in one run

\* stock_sectors, in the order the dict lists the symbols of the model
StockOrder == <<"TCS.NS", "INFY.NS", "WIPRO.NS", "HDFCBANK.NS", "RELIANCE.NS">>

SectorOf(symbol) ==
  CASE symbol \in {"TCS.NS", "INFY.NS", "WIPRO.NS"} -> "IT"
    [] symbol = "HDFCBANK.NS" -> "BANKING"
    [] symbol = "RELIANCE.NS" -> "AUTO"
    [] OTHER -> "NONE"

\* sector_weights.get(sector, 0.5), times ten
SectorWeight(sector) ==
  CASE sector = "FMCG" -> 10
    [] sector = "IT" -> 9
    [] sector = "BANKING" -> 6
    [] sector = "AUTO" -> 3
    [] OTHER -> 5

\* the basket _check_market_gap_up reads
MarketBasket == {"RELIANCE.NS", "TCS.NS", "HDFCBANK.NS", "INFY.NS"}

Abs(x) == IF x < 0 THEN -x ELSE x

Min(a, b) == IF a < b THEN a ELSE b

RECURSIVE SumPnl(_)
SumPnl(events) ==
  IF events = {} THEN 0
  ELSE LET e == CHOOSE x \in events : TRUE
       IN e.pnl + SumPnl(events \ {e})

\* A _check_market_gap_up that counts a member up by exactly 0.3%
CheckMarketGapUpAtLeast(view) ==
  LET checked == {s \in MarketBasket : view[s] # NoQuote}
      gap_up  == {s \in checked : view[s].change_pct >= 30}
  IN IF Cardinality(checked) > 0
     THEN Cardinality(gap_up) * 10 > Cardinality(checked) * 6
     ELSE FALSE

\* _check_market_gap_up over a quote view: more than 60% of the basket
\* members that have a quote are up by more than 0.3%
CheckMarketGapUp(view) ==
  LET checked == {s \in MarketBasket : view[s] # NoQuote}
      gap_up  == {s \in checked : view[s].change_pct > 30}
  IN IF Cardinality(checked) > 0
     THEN Cardinality(gap_up) * 10 > Cardinality(checked) * 6
     ELSE FALSE

\* the confidence expression of _generate_signals
Confidence(selling_pressure, volume_ratio, gap_percentage, sector) ==
  selling_pressure * 40 + Min(volume_ratio * 100, 3000) + gap_percentage * 4
    + SectorWeight(sector) * 100

StopLossOf(current_price) == MulDiv(current_price, 1000 + stop_loss_pct, 1000)

TargetOf(current_price) == MulDiv(current_price, 1000 - target_pct, 1000)

\* the TradingSignal _generate_signals builds for one symbol
TradingSignal(symbol, quote, selling_pressure, volume_ratio) ==
  [symbol |-> symbol, entry_price |-> quote.ltp,
   stop_loss |-> StopLossOf(quote.ltp), target_price |-> TargetOf(quote.ltp),
   confidence |-> Confidence(selling_pressure, volume_ratio, quote.change_pct,
                             SectorOf(symbol))]

\* the body of the loop of _generate_signals for one symbol: the signals it adds
SignalsFor(view, symbol, selling_pressure, volume_ratio) ==
  IF view[symbol] = NoQuote THEN <<>>
  ELSE IF view[symbol].change_pct < min_gap_percentage THEN <<>>
  ELSE IF selling_pressure >= min_selling_pressure /\ volume_ratio >= min_volume_ratio
       THEN <<TradingSignal(symbol, view[symbol], selling_pressure, volume_ratio)>>
       ELSE <<>>

\* signals.sort(key=confidence, reverse=True): stable, highest first
RECURSIVE InsertByConfidence(_, _)
InsertByConfidence(sorted, sig) ==
  IF sorted = <<>> THEN <<sig>>
  ELSE IF Head(sorted).confidence >= sig.confidence
       THEN <<Head(sorted)>> \o InsertByConfidence(Tail(sorted), sig)
       ELSE <<sig>> \o sorted

\* A _generate_signals that returns the list in the order it was built
SortByConfidenceKeepingOrder(sigs) == sigs

RECURSIVE SortByConfidence(_)
SortByConfidence(sigs) ==
  IF sigs = <<>> THEN <<>>
  ELSE InsertByConfidence(SortByConfidence(SubSeq(sigs, 1, Len(sigs) - 1)),
                          sigs[Len(sigs)])

\* A _calculate_position_size that divides the risk budget by the entry price
CalculatePositionSizeByPrice(signal) ==
  LET risk_amount == (portfolio_value * 1000 * risk_per_trade_pct) \div 100
      price_risk  == Abs(signal.stop_loss - signal.entry_price)
  IN IF price_risk <= 0 THEN 0 ELSE risk_amount \div signal.entry_price

\* _calculate_position_size
CalculatePositionSize(signal) ==
  LET risk_amount == (portfolio_value * 1000 * risk_per_trade_pct) \div 100
      price_risk  == Abs(signal.stop_loss - signal.entry_price)
  IN IF price_risk <= 0 THEN 0 ELSE risk_amount \div price_risk

\* An _execute_signal that books the quantity as it was sized
PositionUnsigned(signal, quantity) ==
  [symbol |-> signal.symbol, entry_price |-> signal.entry_price,
   quantity |-> quantity, stop_loss |-> signal.stop_loss,
   target_price |-> signal.target_price]

\* the Position _execute_signal builds: quantity negative for a short
Position(signal, quantity) ==
  [symbol |-> signal.symbol, entry_price |-> signal.entry_price,
   quantity |-> -quantity, stop_loss |-> signal.stop_loss,
   target_price |-> signal.target_price]

\* "self.positions[signal.symbol] = position": positions is a dict by symbol
PutPosition(ps, position) ==
  {q \in ps : q.symbol # position.symbol} \cup {position}

\* "available_slots = max_positions - len(self.positions)" without the count
AvailableSlotsIgnoringOpen(ps) == max_positions

\* "available_slots = max_positions - len(self.positions)"
AvailableSlots(ps) == max_positions - Cardinality(ps)

\* the unrealized P&L _monitor_positions computes for a position at a price
UnrealizedPnl(position, current_price) ==
  IF position.quantity > 0
  THEN (current_price - position.entry_price) * position.quantity
  ELSE (position.entry_price - current_price) * Abs(position.quantity)

\* A _monitor_positions that checks the target only
ExitReasonTargetOnly(position, current_price) ==
  IF \/ position.quantity > 0 /\ current_price >= position.target_price
     \/ position.quantity < 0 /\ current_price <= position.target_price
  THEN "TARGET"
  ELSE "NONE"

\* the exit _monitor_positions decides for a position at a price
ExitReason(position, current_price) ==
  IF \/ position.quantity > 0 /\ current_price <= position.stop_loss
     \/ position.quantity < 0 /\ current_price >= position.stop_loss
  THEN "STOP_LOSS"
  ELSE IF \/ position.quantity > 0 /\ current_price >= position.target_price
          \/ position.quantity < 0 /\ current_price <= position.target_price
       THEN "TARGET"
       ELSE "NONE"

\* positions_to_close of _monitor_positions over a quote view
PositionsToClose(ps, view) ==
  { [symbol |-> q.symbol, reason |-> ExitReason(q, view[q.symbol].ltp),
     pnl |-> UnrealizedPnl(q, view[q.symbol].ltp)] :
      q \in {r \in ps : /\ view[r.symbol] # NoQuote
                        /\ ExitReason(r, view[r.symbol].ltp) # "NONE"} }

\* A run_strategy_cycle that monitors the positions whatever the time is
CycleSkippedStillMonitoring ==
  /\ eng_pc = "idle"
  /\ LET to_close == PositionsToClose(positions, live_quotes)
     IN /\ n_closed + Cardinality(to_close) <= MaxCloses
        /\ positions' = {q \in positions :
                           \A e \in to_close : e.symbol # q.symbol}
        /\ daily_pnl' = daily_pnl + SumPnl(to_close)
        /\ total_pnl' = total_pnl + SumPnl(to_close)
        /\ n_closed' = n_closed + Cardinality(to_close)
        /\ realized' = realized + SumPnl(to_close)
        /\ last_closed' = to_close
  /\ UNCHANGED <<eng_pc, available_slots, signals, gen_next, exec_next>>

\* run_strategy_cycle outside trading time: nothing is done
CycleSkipped ==
  /\ eng_pc = "idle"
  /\ UNCHANGED engVars

\* A _close_position that adds the P&L to the daily total only
CycleMonitorDailyOnly ==
  /\ eng_pc = "idle"
  /\ LET to_close == PositionsToClose(positions, live_quotes)
     IN /\ n_closed + Cardinality(to_close) <= MaxCloses
        /\ positions' = {q \in positions :
                           \A e \in to_close : e.symbol # q.symbol}
        /\ daily_pnl' = daily_pnl + SumPnl(to_close)
        /\ total_pnl' = total_pnl
        /\ n_closed' = n_closed + Cardinality(to_close)
        /\ realized' = realized + SumPnl(to_close)
        /\ last_closed' = to_close
  /\ eng_pc' = "monitored"
  /\ UNCHANGED <<available_slots, signals, gen_next, exec_next>>

\* run_strategy_cycle within trading time, first part: _monitor_positions and
\* the _close_position calls it makes
CycleMonitor ==
  /\ eng_pc = "idle"
  /\ LET to_close == PositionsToClose(positions, live_quotes)
     IN /\ n_closed + Cardinality(to_close) <= MaxCloses
        /\ positions' = {q \in positions :
                           \A e \in to_close : e.symbol # q.symbol}
        /\ daily_pnl' = daily_pnl + SumPnl(to_close)
        /\ total_pnl' = total_pnl + SumPnl(to_close)
        /\ n_closed' = n_closed + Cardinality(to_close)
        /\ realized' = realized + SumPnl(to_close)
        /\ last_closed' = to_close
  /\ eng_pc' = "monitored"
  /\ UNCHANGED <<available_slots, signals, gen_next, exec_next>>

\* the rest of the cycle when is_signal_generation_time() is false, or when
\* _generate_and_execute_signals finds no free slot: _log_status, cycle over
CycleNoSignals(signal_time) ==
  /\ eng_pc = "monitored"
  /\ ~signal_time \/ AvailableSlots(positions) <= 0
  /\ eng_pc' = "idle"
  /\ UNCHANGED <<positions, daily_pnl, total_pnl, available_slots, signals,
                 gen_next, exec_next, n_closed, realized, last_closed>>

\* A run_strategy_cycle that generates signals whatever the timing service says
GenerateBeginAnyTime(signal_time) ==
  /\ eng_pc = "monitored"
  /\ AvailableSlots(positions) > 0
  /\ IF CheckMarketGapUp(live_quotes)
     THEN /\ eng_pc' = "gen"
          /\ available_slots' = AvailableSlots(positions)
          /\ gen_next' = 1
     ELSE /\ eng_pc' = "idle"
          /\ UNCHANGED <<available_slots, gen_next>>
  /\ UNCHANGED <<positions, daily_pnl, total_pnl, signals, exec_next, n_closed,
                 realized, last_closed>>

\* _generate_and_execute_signals with a free slot, up to the market gate of
\* _generate_signals: a closed gate leaves no signal and the cycle is over
GenerateBegin(signal_time) ==
  /\ eng_pc = "monitored"
  /\ signal_time /\ AvailableSlots(positions) > 0
  /\ IF CheckMarketGapUp(live_quotes)
     THEN /\ eng_pc' = "gen"
          /\ available_slots' = AvailableSlots(positions)
          /\ gen_next' = 1
     ELSE /\ eng_pc' = "idle"
          /\ UNCHANGED <<available_slots, gen_next>>
  /\ UNCHANGED <<positions, daily_pnl, total_pnl, signals, exec_next, n_closed,
                 realized, last_closed>>

\* one turn of the loop of _generate_signals; the two scores are what the
\* analysis service answers for the symbol
GenerateSymbol(selling_pressure, volume_ratio) ==
  /\ eng_pc = "gen" /\ gen_next <= Len(StockOrder)
  /\ signals' = signals \o SignalsFor(live_quotes, StockOrder[gen_next],
                                      selling_pressure, volume_ratio)
  /\ gen_next' = gen_next + 1
  /\ UNCHANGED <<positions, daily_pnl, total_pnl, eng_pc, available_slots,
                 exec_next, n_closed, realized, last_closed>>

\* the end of _generate_signals: the list is sorted and returned
GenerateSort ==
  /\ eng_pc = "gen" /\ gen_next > Len(StockOrder)
  /\ signals' = SortByConfidence(signals)
  /\ eng_pc' = "exec"
  /\ exec_next' = 1
  /\ UNCHANGED <<positions, daily_pnl, total_pnl, available_slots, gen_next,
                 n_closed, realized, last_closed>>

\* one turn of "for signal in signals[:available_slots]": _execute_signal when
\* the confidence suffices (the sleep after it ends the step)
ExecuteNext ==
  /\ eng_pc = "exec" /\ exec_next <= Min(Len(signals), available_slots)
  /\ LET signal   == signals[exec_next]
         quantity == CalculatePositionSize(signal)
     IN positions' = IF signal.confidence >= min_confidence /\ quantity > 0
                     THEN PutPosition(positions, Position(signal, quantity))
                     ELSE positions
  /\ exec_next' = exec_next + 1
  /\ UNCHANGED <<daily_pnl, total_pnl, eng_pc, available_slots, signals, gen_next,
                 n_closed, realized, last_closed>>

\* the loop is over: _log_status, cycle over, the locals are gone
ExecuteDone ==
  /\ eng_pc = "exec" /\ exec_next > Min(Len(signals), available_slots)
  /\ eng_pc' = "idle"
  /\ available_slots' = 0
  /\ signals' = <<>>
  /\ gen_next' = 0
  /\ exec_next' = 0
  /\ UNCHANGED <<positions, daily_pnl, total_pnl, n_closed, realized, last_closed>>

\* ------------------------------------------------- the engine on its stream
\* The state after GapUpStrategyWebSocket.initialize(): the engine's channel is
\* connected on its first socket and the universe is subscribed.

EngineFrames ==
  { Frame("dict", "NSE:TCS-EQ", TRUE, 101000, 100000),
    Frame("dict", "NSE:TCS-EQ", TRUE, 103000, 100000),
    Frame("dict", "NSE:TCS-EQ", TRUE, 97000, 100000),
    Frame("dict", "NSE:INFY-EQ", TRUE, 101000, 100000),
    Frame("dict", "NSE:HDFCBANK-EQ", TRUE, 101000, 100000),
    Frame("dict", "NSE:RELIANCE-EQ", TRUE, 101000, 100000) }

\* what the analysis service can answer: strong scores, and its defaults on
\* failure
AnalysisAnswers ==
  { [selling_pressure |-> 80, volume_ratio |-> 30],
    [selling_pressure |-> 0, volume_ratio |-> 10] }

EngineInit ==
  /\ ObsInit
  /\ n_ws = 1
  /\ ws_is_connected = [i \in WsIds |-> i = 1]
  /\ ws_reconnect_count = [i \in WsIds |-> 0]
  /\ ws_subscribed_symbols = [i \in WsIds |-> IF i = 1 THEN Range(StockOrder) ELSE {}]
  /\ ws_live_quotes = [i \in WsIds |-> EmptyQuotes]
  /\ ws_data_callbacks = [i \in WsIds |-> IF i = 1 THEN <<"engine">> ELSE <<>>]
  /\ ws_fyers_socket = [i \in WsIds |-> IF i = 1 THEN 1 ELSE 0]
  /\ ws_pc = [i \in WsIds |-> "idle"]
  /\ ws_waited = [i \in WsIds |-> 0]
  /\ ws_ret = [i \in WsIds |-> IF i = 1 THEN "true" ELSE "none"]
  /\ ws_timed_out = [i \in WsIds |-> FALSE]
  /\ ws_link = [i \in WsIds |-> "fresh"]
  /\ ws_sent = [i \in WsIds |->
                  IF i = 1 THEN {WsToVenue(s) : s \in Range(StockOrder)} ELSE {}]
  /\ n_sock = 1
  /\ sock_owner = [k \in SockIds |-> IF k = 1 THEN 1 ELSE 0]
  /\ sock_state = [k \in SockIds |-> IF k = 1 THEN "open" ELSE "none"]
  /\ sock_attempts = [k \in SockIds |-> 0]
  /\ ConsInit
  /\ EngInit
  /\ FbInit
  /\ GwInit

EnSockMessage ==
  \E frame \in EngineFrames :
    SockMessage(1, frame) /\ UNCHANGED <<n_ws, last_call, engVars, fbVars, gwVars, obsVars>>

EnCycleSkipped == CycleSkipped /\ UNCHANGED <<wsVars, sockVars, consVars, fbVars, gwVars, obsVars>>

EnCycleMonitor == CycleMonitor /\ UNCHANGED <<wsVars, sockVars, consVars, fbVars, gwVars, obsVars>>

EnCycleNoSignals ==
  \E signal_time \in BOOLEAN :
    CycleNoSignals(signal_time) /\ UNCHANGED <<wsVars, sockVars, consVars, fbVars, gwVars, obsVars>>

EnGenerateBegin ==
  GenerateBegin(TRUE) /\ UNCHANGED <<wsVars, sockVars, consVars, fbVars, gwVars, obsVars>>

EnGenerateSymbol ==
  \E a \in AnalysisAnswers :
    /\ GenerateSymbol(a.selling_pressure, a.volume_ratio)
    /\ UNCHANGED <<wsVars, sockVars, consVars, fbVars, gwVars, obsVars>>

EnGenerateSort == GenerateSort /\ UNCHANGED <<wsVars, sockVars, consVars, fbVars, gwVars, obsVars>>

EnExecuteNext == ExecuteNext /\ UNCHANGED <<wsVars, sockVars, consVars, fbVars, gwVars, obsVars>>

EnExecuteDone == ExecuteDone /\ UNCHANGED <<wsVars, sockVars, consVars, fbVars, gwVars, obsVars>>

EngineNext ==
  \/ EnSockMessage
  \/ EnCycleSkipped
  \/ EnCycleMonitor
  \/ EnCycleNoSignals
  \/ EnGenerateBegin
  \/ EnGenerateSymbol
  \/ EnGenerateSort
  \/ EnExecuteNext
  \/ EnExecuteDone

SpecEngine == EngineInit /\ [][EngineNext]_vars

\* --------------------------------------------------- the gateway on its own
\* One HybridFyersDataService as its constructor leaves it; the caller's
\* operations are its public methods, a caller is blocked while connect() runs.
\* The venue sends quotes for instruments the receiving channel has subscribed.
GatewaySymbols == {"TCS.NS"}

GatewayFrames == { Frame("dict", "NSE:TCS-EQ", TRUE, 101000, 100000) }

GatewayResponses == { Response("ok", "NSE:TCS-EQ", 101000, 100000) }

\* the callbacks a caller registers, in this order
CallbackOrder == <<"cb1", "cb2", "engine">>

GatewayInit ==
  /\ ObsInit
  /\ n_ws = 0
  /\ WsInit
  /\ ws_data_callbacks = [i \in WsIds |-> <<>>]
  /\ SockInit
  /\ ConsInit
  /\ EngInit
  /\ FbInit
  /\ GwInit

HyConnectBegin == GwConnectBegin /\ UNCHANGED <<engVars, obsVars>>

HyPrimaryWait == GwPrimaryWait /\ UNCHANGED <<engVars, obsVars>>

HyPrimaryReturn == GwPrimaryReturn /\ UNCHANGED <<engVars, obsVars>>

HyConnectFinish ==
  \E profile_ok \in BOOLEAN : GwConnectFinish(profile_ok) /\ UNCHANGED <<engVars, obsVars>>

HySubscribe == GwSubscribe(GatewaySymbols, TRUE) /\ UNCHANGED <<engVars, obsVars>>

HyAddDataCallback ==
  /\ Len(gw_data_callbacks) < MaxCallbacks
  /\ GwAddDataCallback(CallbackOrder[Len(gw_data_callbacks) + 1])
  /\ UNCHANGED <<engVars, obsVars>>

HyDisconnect == GwDisconnect /\ UNCHANGED <<engVars, obsVars>>

HySockOpen ==
  \E k \in SockIds :
    SockOpen(k) /\ UNCHANGED <<n_ws, consVars, engVars, fbVars, gwVars, obsVars>>

HySockClose ==
  \E k \in SockIds :
    SockClose(k) /\ UNCHANGED <<n_ws, consVars, engVars, fbVars, gwVars, obsVars>>

HySockError ==
  \E k \in SockIds :
    SockError(k) /\ UNCHANGED <<n_ws, consVars, engVars, fbVars, gwVars, obsVars>>

\* a gateway that went over to its polling service when a socket gives up
HySockRetryFailingOver ==
  \E k \in SockIds :
    /\ SockRetry(k)
    /\ gw_using_fallback' = IF sock_attempts[k] >= reconnect_retry
                            THEN TRUE ELSE gw_using_fallback
    /\ UNCHANGED <<n_ws, consVars, engVars, fbVars, obsVars, gw_primary_service,
                   gw_fallback_service, gw_is_connected, gw_subscribed_symbols,
                   gw_data_callbacks, gw_pc, gw_ret, gw_stream, gw_poll,
                   gw_selected>>

\* the vendor socket retries or gives up: no code of the gateway runs
HySockRetry ==
  \E k \in SockIds :
    SockRetry(k) /\ UNCHANGED <<n_ws, consVars, engVars, fbVars, gwVars, obsVars>>

HySockMessage ==
  \E k \in SockIds, frame \in GatewayFrames :
    /\ k <= n_sock
    /\ WsToInternal(frame.symbol) \in ws_subscribed_symbols[sock_owner[k]]
    /\ SockMessage(k, frame)
    /\ UNCHANGED <<n_ws, last_call, engVars, fbVars, gwVars, obsVars>>

HyPollData ==
  \E j \in FbIds, r \in GatewayResponses :
    /\ FbPollData(j, r)
    /\ UNCHANGED <<wsVars, sockVars, last_call, engVars, gwVars, obsVars>>

HyPollExit ==
  \E j \in FbIds :
    FbPollExit(j) /\ UNCHANGED <<wsVars, sockVars, consVars, engVars, gwVars, obsVars>>

GatewayNext ==
  \/ HyConnectBegin
  \/ HyPrimaryWait
  \/ HyPrimaryReturn
  \/ HyConnectFinish
  \/ HySubscribe
  \/ HyAddDataCallback
  \/ HyDisconnect
  \/ HySockOpen
  \/ HySockClose
  \/ HySockError
  \/ HySockRetry
  \/ HySockMessage
  \/ HyPollData
  \/ HyPollExit

SpecGateway == GatewayInit /\ [][GatewayNext]_vars

\* connect(), disconnect() and the life of the sockets and polling threads,
\* without subscriptions, callbacks and quotes
ModeNext ==
  \/ HyConnectBegin
  \/ HyPrimaryWait
  \/ HyPrimaryReturn
  \/ HyConnectFinish
  \/ HyDisconnect
  \/ HySockOpen
  \/ HySockClose
  \/ HySockError
  \/ HySockRetry
  \/ HyPollExit

SpecGatewayMode == GatewayInit /\ [][ModeNext]_vars

\* ------------------------------------------- the channel under a configuration
\* The ws_config the channel is constructed with: the default, whose
\* max_reconnect_attempts equals the number connect() passes to the socket, or
\* one that allows no reconnect attempt.
ConfiguredAttempts == {0, reconnect_retry}

ConfiguredInit ==
  /\ n_ws = 1
  /\ EngInit
  /\ FbInit
  /\ GwInit
  /\ WsInit
  /\ ws_data_callbacks = [i \in WsIds |-> IF i = 1 THEN <<"engine">> ELSE <<>>]
  /\ SockInit
  /\ ConsInit
  /\ max_reconnect_attempts \in ConfiguredAttempts
  /\ dispatch_log = <<>>
  /\ phase_quotes = EmptyQuotes
  /\ last_cycle = NoCycle
  /\ run_pc = "none"
  /\ clock = "signal"
  /\ analysis = NoAnalysis

SpecConfigured == ConfiguredInit /\ [][ConnectNext]_vars

\* --------------------------------------------- the frames the channel receives
\* The engine's channel after initialize(), connected on its first socket; the
\* venue's frames arrive one by one and a caller may register a further
\* callback after the engine's.
FrameInputs ==
  { Frame("dict", "NSE:TCS-EQ", TRUE, 101000, 100000),
    Frame("dict", "NSE:TCS-EQ", TRUE, 102000, 100000),
    Frame("dict", "NSE:INFY-EQ", TRUE, 101000, 100000),
    Frame("dict", "NSE:TCS-EQ", FALSE, 0, 100000),
    Frame("dict", "NSE:TCS-EQ", TRUE, 100000, 99000),
    Frame("dict", "NSE:TCS-EQ", TRUE, 101000, 0),
    Frame("dict", "NSE:INFY-EQ", TRUE, 99000, 100000),
    Frame("dict", "NSE:INFY-EQ", TRUE, 101000, -1000),
    Frame("dict", "NSE:SUNPHARMA-EQ", TRUE, 101000, 100000),
    Frame("dict", "", TRUE, 101000, 100000),
    Frame("other", "", FALSE, 0, 0) }

\* socket 1 delivers the frame; the observation of the dispatch is taken, and
\* the call is noted with the venue identifier the frame carried and whether
\* the frame was taken as an update
FrMessage(frame) ==
  /\ SockMessage(1, frame)
  /\ last_call' = Call("_process_fyers_data", frame.symbol, 1, WsAccepts(frame))
  /\ dispatch_log' =
       IF WsAccepts(frame)
       THEN RunCallbacks(ws_data_callbacks[1], ws_live_quotes'[1], live_quotes,
                         WsToInternal(frame.symbol), WsFrameQuote(frame)).log
       ELSE <<>>
  /\ UNCHANGED <<n_ws, engVars, fbVars, gwVars, run_pc, clock, max_reconnect_attempts, analysis,
                 phase_quotes, last_cycle>>

FrSockMessage == \E frame \in FrameInputs : FrMessage(frame)

FrAddCallback ==
  /\ Len(ws_data_callbacks[1]) < 1 + MaxCallbacks
  /\ ws_data_callbacks' =
       WsAddDataCallback(ws_data_callbacks, 1, CallbackOrder[Len(ws_data_callbacks[1])])
  /\ UNCHANGED <<n_ws, ws_is_connected, ws_reconnect_count, ws_subscribed_symbols,
                 ws_live_quotes, ws_fyers_socket, ws_pc, ws_waited, ws_ret,
                 ws_timed_out, ws_link, ws_sent, sockVars, consVars, engVars, fbVars,
                 gwVars, obsVars>>

FramesNext ==
  \/ FrSockMessage
  \/ FrAddCallback

SpecFrames == EngineInit /\ [][FramesNext]_vars

\* ------------------------------------------------ the polling channel alone
\* One FallbackDataService as its constructor leaves it, with one consumer
\* registered that keeps the latest quote it was handed (as the engine's
\* _on_live_data_update does).  The caller connects, subscribes and
\* disconnects; the polling threads fetch; the venue answers.
MaxThreads == 2   \* polling threads of one object alive at a time

PollSymbols == {"TCS.NS", "INFY.NS"}

\* replies of fyers.quotes: quotes that differ in the price, quotes that differ
\* in another field only, a reply whose 's' is not 'ok', and a request that raises
PollResponses ==
  { Response("ok", "NSE:TCS-EQ", 101000, 100000),
    Response("ok", "NSE:TCS-EQ", 101000, 99000),
    Response("ok", "NSE:TCS-EQ", 102000, 100000),
    Response("ok", "NSE:INFY-EQ", 101000, 100000),
    Response("error", "NSE:TCS-EQ", 0, 0),
    Response("raise", "NSE:TCS-EQ", 0, 0) }

PollInit ==
  /\ ObsInit
  /\ n_ws = 0
  /\ WsInit
  /\ ws_data_callbacks = [i \in WsIds |-> <<>>]
  /\ SockInit
  /\ ConsInit
  /\ EngInit
  /\ GwInit
  /\ n_fb = 1
  /\ fb_is_connected = [j \in FbIds |-> FALSE]
  /\ fb_stop_event = [j \in FbIds |-> FALSE]
  /\ fb_subscribed_symbols = [j \in FbIds |-> {}]
  /\ fb_live_quotes = [j \in FbIds |-> EmptyQuotes]
  /\ fb_data_callbacks = [j \in FbIds |-> IF j = 1 THEN <<"engine">> ELSE <<>>]
  /\ fb_threads = [j \in FbIds |-> 0]

PoConnectOf(profile_ok) ==
  /\ fb_threads[1] < MaxThreads
  /\ FbConnect(1, profile_ok)
  /\ last_call' = Call("connect", "fb", 1, FbConnectRet(1, profile_ok))
  /\ UNCHANGED <<n_fb, fb_stop_event, fb_subscribed_symbols, fb_live_quotes,
                 fb_data_callbacks, live_quotes, delivered, last_src, wsVars,
                 sockVars, engVars, gwVars, obsVars>>

PoConnect == \E profile_ok \in BOOLEAN : PoConnectOf(profile_ok)

PoDisconnect ==
  /\ FbDisconnect(1)
  /\ last_call' = Call("disconnect", "fb", 1, TRUE)
  /\ UNCHANGED <<n_fb, fb_subscribed_symbols, fb_live_quotes, fb_data_callbacks,
                 fb_threads, live_quotes, delivered, last_src, wsVars, sockVars,
                 engVars, gwVars, obsVars>>

PoSubscribe ==
  /\ fb_subscribed_symbols' = FbSubscribe(fb_subscribed_symbols, 1, PollSymbols)
  /\ last_call' = Call("subscribe", "fb", 1, TRUE)
  /\ UNCHANGED <<n_fb, fb_is_connected, fb_stop_event, fb_live_quotes,
                 fb_data_callbacks, fb_threads, live_quotes, delivered, last_src,
                 wsVars, sockVars, engVars, gwVars, obsVars>>

\* a polling thread fetches and gets the reply r
PoPollOf(r) ==
  /\ FbPollData(1, r)
  /\ last_call' = Call("_fetch_quotes", "fb", 1, r.s = "ok")
  /\ UNCHANGED <<wsVars, sockVars, engVars, gwVars, obsVars>>

PoPoll == \E r \in PollResponses : PoPollOf(r)

PoPollExit ==
  FbPollExit(1) /\ UNCHANGED <<wsVars, sockVars, consVars, engVars, gwVars, obsVars>>

PollNext ==
  \/ PoConnect
  \/ PoDisconnect
  \/ PoSubscribe
  \/ PoPoll
  \/ PoPollExit

SpecPoll == PollInit /\ [][PollNext]_vars

\* ------------------------------------------- the cycle and the channel thread
\* The engine after initialize(), its cycles against the updates the channel
\* thread dispatches.  Every cycle notes how it went, and a generate phase
\* notes the engine's view at its start.
CycleFrames ==
  { Frame("dict", "NSE:TCS-EQ", TRUE, 101000, 100000),
    Frame("dict", "NSE:TCS-EQ", TRUE, 103000, 100000),
    Frame("dict", "NSE:TCS-EQ", TRUE, 97000, 100000),
    Frame("dict", "NSE:INFY-EQ", TRUE, 101000, 100000) }

CySockMessage ==
  \E frame \in CycleFrames :
    SockMessage(1, frame) /\ UNCHANGED <<n_ws, last_call, engVars, fbVars, gwVars, obsVars>>

\* is_trading_time() answers False
CyCycleSkipped ==
  /\ CycleSkipped
  /\ last_cycle' = CycleNote("skipped", {e.symbol : e \in PositionsToClose(positions, live_quotes)})
  /\ UNCHANGED <<wsVars, sockVars, consVars, fbVars, gwVars, run_pc, clock, max_reconnect_attempts, analysis,
                 dispatch_log, phase_quotes>>

\* is_trading_time() answers True
CyCycleMonitor ==
  /\ CycleMonitor
  /\ last_cycle' = CycleNote("ran", {e.symbol : e \in PositionsToClose(positions, live_quotes)})
  /\ UNCHANGED <<wsVars, sockVars, consVars, fbVars, gwVars, run_pc, clock, max_reconnect_attempts, analysis,
                 dispatch_log, phase_quotes>>

CyCycleNoSignals ==
  \E signal_time \in BOOLEAN :
    CycleNoSignals(signal_time) /\ UNCHANGED <<wsVars, sockVars, consVars, fbVars, gwVars, obsVars>>

CyGenerateBegin ==
  /\ GenerateBegin(TRUE)
  /\ phase_quotes' = IF eng_pc' = "gen" THEN live_quotes ELSE phase_quotes
  /\ UNCHANGED <<wsVars, sockVars, consVars, fbVars, gwVars, run_pc, clock, max_reconnect_attempts, analysis,
                 dispatch_log, last_cycle>>

CyGenerateSymbolOf(a) ==
  /\ GenerateSymbol(a.selling_pressure, a.volume_ratio)
  /\ UNCHANGED <<wsVars, sockVars, consVars, fbVars, gwVars, obsVars>>

CyGenerateSymbol == \E a \in AnalysisAnswers : CyGenerateSymbolOf(a)

CyGenerateSort == GenerateSort /\ UNCHANGED <<wsVars, sockVars, consVars, fbVars, gwVars, obsVars>>

CyExecuteNext == ExecuteNext /\ UNCHANGED <<wsVars, sockVars, consVars, fbVars, gwVars, obsVars>>

CyExecuteDone ==
  /\ ExecuteDone
  /\ phase_quotes' = EmptyQuotes
  /\ UNCHANGED <<wsVars, sockVars, consVars, fbVars, gwVars, run_pc, clock, max_reconnect_attempts, analysis,
                 dispatch_log, last_cycle>>

CycleNext ==
  \/ CySockMessage
  \/ CyCycleSkipped
  \/ CyCycleMonitor
  \/ CyCycleNoSignals
  \/ CyGenerateBegin
  \/ CyGenerateSymbol
  \/ CyGenerateSort
  \/ CyExecuteNext
  \/ CyExecuteDone

SpecCycle == EngineInit /\ [][CycleNext]_vars

\* ------------------------------------------------------------ the run loop
\* run() after initialize() has returned True: the cycles it starts, the clock
\* the timing service reads, the errors a cycle can meet, the channel thread
\* and the vendor socket, and the shutdown that ends it.

\* MarketTimingService.is_trading_time() at a clock reading
IsTradingTime(now) == now \in {"signal", "late"}

\* MarketTimingService.is_signal_generation_time() at a clock reading
IsSignalGenerationTime(now) == IsTradingTime(now) /\ now = "signal"

\* datetime.now(IST) moves on: the signal window, the rest of the session, the
\* hours the market is closed, the next session
ClockTick ==
  clock' = CASE clock = "signal" -> "late"
             [] clock = "late"   -> "closed"
             [] OTHER            -> "signal"

\* run(): initialize() returned True and the while loop is entered
RunEnterLoop ==
  /\ run_pc = "none"
  /\ run_pc' = "loop"

\* An error inside run_strategy_cycle that is let through to run()
CycleRaisesFatal ==
  /\ eng_pc = "monitored"
  /\ eng_pc' = "idle"
  /\ run_pc' = "done"
  /\ UNCHANGED <<positions, daily_pnl, total_pnl, available_slots, signals,
                 gen_next, exec_next, n_closed, realized, last_closed>>

\* an error raised in run_strategy_cycle itself (the timing check, _log_status):
\* its "except Exception" logs it and the cycle returns to run()
CycleRaises ==
  /\ eng_pc = "monitored"
  /\ eng_pc' = "idle"
  /\ run_pc' = run_pc
  /\ UNCHANGED <<positions, daily_pnl, total_pnl, available_slots, signals,
                 gen_next, exec_next, n_closed, realized, last_closed>>

\* an error raised in _monitor_positions before any close: its own "except"
\* logs it, and the cycle goes on
MonitorRaises ==
  /\ eng_pc = "idle"
  /\ eng_pc' = "monitored"
  /\ last_closed' = {}
  /\ run_pc' = run_pc
  /\ UNCHANGED <<positions, daily_pnl, total_pnl, available_slots, signals,
                 gen_next, exec_next, n_closed, realized>>

\* an error raised in _generate_signals (the analysis service, a quote field):
\* it returns [], nothing is executed, _log_status, cycle over
GenerateRaises ==
  /\ eng_pc = "gen"
  /\ eng_pc' = "idle"
  /\ available_slots' = 0
  /\ signals' = <<>>
  /\ gen_next' = 0
  /\ exec_next' = 0
  /\ run_pc' = run_pc
  /\ UNCHANGED <<positions, daily_pnl, total_pnl, n_closed, realized, last_closed>>

\* an error raised in _execute_signal: it returns False and the loop of
\* _generate_and_execute_signals goes on with the next signal
ExecuteRaises ==
  /\ eng_pc = "exec" /\ exec_next <= Min(Len(signals), available_slots)
  /\ signals[exec_next].confidence >= min_confidence
  /\ exec_next' = exec_next + 1
  /\ run_pc' = run_pc
  /\ UNCHANGED <<positions, daily_pnl, total_pnl, eng_pc, available_slots, signals,
                 gen_next, n_closed, realized, last_closed>>

\* A shutdown that leaves run() without the finally block
RunShutdownNoDisconnect ==
  /\ run_pc = "loop"
  /\ run_pc' = "done"
  /\ eng_pc' = "idle"
  /\ available_slots' = 0
  /\ signals' = <<>>
  /\ gen_next' = 0
  /\ exec_next' = 0
  /\ UNCHANGED <<wsVars, sockVars>>
  /\ UNCHANGED <<positions, daily_pnl, total_pnl, n_closed, realized, last_closed>>

\* run() is interrupted (KeyboardInterrupt, or the cancellation asyncio.run
\* makes of it): whatever the cycle was doing is abandoned, the finally block
\* calls websocket_service.disconnect(), run() returns
RunShutdown ==
  /\ run_pc = "loop"
  /\ run_pc' = "done"
  /\ eng_pc' = "idle"
  /\ available_slots' = 0
  /\ signals' = <<>>
  /\ gen_next' = 0
  /\ exec_next' = 0
  /\ WsDisconnect(1)
  /\ UNCHANGED n_ws
  /\ UNCHANGED <<positions, daily_pnl, total_pnl, n_closed, realized, last_closed>>

RunFrames ==
  { Frame("dict", "NSE:TCS-EQ", TRUE, 101000, 100000),
    Frame("dict", "NSE:TCS-EQ", TRUE, 103000, 100000),
    Frame("dict", "NSE:INFY-EQ", TRUE, 101000, 100000),
    Frame("dict", "NSE:HDFCBANK-EQ", TRUE, 101000, 100000) }

\* the analysis service answers strong scores
RunAnswers == { [selling_pressure |-> 80, volume_ratio |-> 30] }

RnEnterLoop ==
  /\ RunEnterLoop
  /\ UNCHANGED <<wsVars, sockVars, consVars, engVars, fbVars, gwVars,
                 max_reconnect_attempts, analysis, dispatch_log, phase_quotes, last_cycle, clock>>

RnTick ==
  /\ ClockTick
  /\ UNCHANGED <<wsVars, sockVars, consVars, engVars, fbVars, gwVars,
                 max_reconnect_attempts, analysis, dispatch_log, phase_quotes, last_cycle, run_pc>>

RnSockMessage ==
  \E frame \in RunFrames :
    SockMessage(1, frame) /\ UNCHANGED <<n_ws, last_call, engVars, fbVars, gwVars, obsVars>>

RnSockClose ==
  SockClose(1) /\ UNCHANGED <<n_ws, consVars, engVars, fbVars, gwVars, obsVars>>

RnSockRetry ==
  SockRetry(1) /\ UNCHANGED <<n_ws, consVars, engVars, fbVars, gwVars, obsVars>>

RnSockOpen ==
  SockOpen(1) /\ UNCHANGED <<n_ws, consVars, engVars, fbVars, gwVars, obsVars>>

\* outside trading hours run() sleeps, or the cycle it started returns at once
RnCycleSkipped ==
  /\ run_pc = "loop" /\ ~IsTradingTime(clock)
  /\ CycleSkipped
  /\ last_cycle' = CycleNote("skipped", {})
  /\ UNCHANGED <<wsVars, sockVars, consVars, fbVars, gwVars, run_pc, clock, max_reconnect_attempts, analysis,
                 dispatch_log, phase_quotes>>

\* a cycle in trading hours; the note tells a cycle that follows one that met
\* an error from the others
RnCycleMonitor ==
  /\ run_pc = "loop" /\ IsTradingTime(clock)
  /\ CycleMonitor
  /\ last_cycle' = CycleNote(IF last_cycle.outcome \in {"raised", "resumed"}
                             THEN "resumed" ELSE "ran", {})
  /\ UNCHANGED <<wsVars, sockVars, consVars, fbVars, gwVars, run_pc, clock, max_reconnect_attempts, analysis,
                 dispatch_log, phase_quotes>>

RnCycleNoSignals ==
  /\ run_pc = "loop"
  /\ CycleNoSignals(IsSignalGenerationTime(clock))
  /\ UNCHANGED <<wsVars, sockVars, consVars, fbVars, gwVars, obsVars>>

RnGenerateBegin ==
  /\ run_pc = "loop"
  /\ GenerateBegin(IsSignalGenerationTime(clock))
  /\ UNCHANGED <<wsVars, sockVars, consVars, fbVars, gwVars, obsVars>>

RnGenerateSymbol ==
  \E a \in RunAnswers :
    /\ run_pc = "loop"
    /\ GenerateSymbol(a.selling_pressure, a.volume_ratio)
    /\ UNCHANGED <<wsVars, sockVars, consVars, fbVars, gwVars, obsVars>>

RnGenerateSort ==
  /\ run_pc = "loop"
  /\ GenerateSort
  /\ UNCHANGED <<wsVars, sockVars, consVars, fbVars, gwVars, obsVars>>

RnExecuteNext ==
  /\ run_pc = "loop"
  /\ ExecuteNext
  /\ UNCHANGED <<wsVars, sockVars, consVars, fbVars, gwVars, obsVars>>

RnExecuteDone ==
  /\ run_pc = "loop"
  /\ ExecuteDone
  /\ UNCHANGED <<wsVars, sockVars, consVars, fbVars, gwVars, obsVars>>

RnMonitorRaises ==
  /\ run_pc = "loop" /\ IsTradingTime(clock)
  /\ MonitorRaises
  /\ last_cycle' = CycleNote("raised", {})
  /\ UNCHANGED <<wsVars, sockVars, consVars, fbVars, gwVars, clock, max_reconnect_attempts, analysis,
                 dispatch_log, phase_quotes>>

RnCycleRaises ==
  /\ run_pc = "loop"
  /\ CycleRaises
  /\ last_cycle' = CycleNote("raised", {})
  /\ UNCHANGED <<wsVars, sockVars, consVars, fbVars, gwVars, clock, max_reconnect_attempts, analysis,
                 dispatch_log, phase_quotes>>

RnGenerateRaises ==
  /\ run_pc = "loop"
  /\ GenerateRaises
  /\ last_cycle' = CycleNote("raised", {})
  /\ UNCHANGED <<wsVars, sockVars, consVars, fbVars, gwVars, clock, max_reconnect_attempts, analysis,
                 dispatch_log, phase_quotes>>

RnExecuteRaises ==
  /\ run_pc = "loop"
  /\ ExecuteRaises
  /\ last_cycle' = CycleNote("raised", {})
  /\ UNCHANGED <<wsVars, sockVars, consVars, fbVars, gwVars, clock, max_reconnect_attempts, analysis,
                 dispatch_log, phase_quotes>>

RnShutdown ==
  /\ RunShutdown
  /\ UNCHANGED <<consVars, fbVars, gwVars, clock, max_reconnect_attempts, analysis,
                 dispatch_log, phase_quotes, last_cycle>>

RunNext ==
  \/ RnEnterLoop
  \/ RnTick
  \/ RnSockMessage
  \/ RnSockClose
  \/ RnSockRetry
  \/ RnSockOpen
  \/ RnCycleSkipped
  \/ RnCycleMonitor
  \/ RnCycleNoSignals
  \/ RnGenerateBegin
  \/ RnGenerateSymbol
  \/ RnGenerateSort
  \/ RnExecuteNext
  \/ RnExecuteDone
  \/ RnMonitorRaises
  \/ RnCycleRaises
  \/ RnGenerateRaises
  \/ RnExecuteRaises
  \/ RnShutdown

SpecRun == EngineInit /\ [][RunNext]_vars

\* ------------------------------------------------------ the cycle's decisions
\* The engine after initialize(), on quotes that lie at the edges of its
\* decisions: a basket member up by exactly 0.30% and one up by 0.31%, one that
\* is down, a later symbol with the larger gap, a price so high that the risk
\* budget buys no share, and an analysis service that answers strong scores or
\* scores that just pass the entry criteria.
DecideFrames ==
  { Frame("dict", "NSE:TCS-EQ", TRUE, 100300, 100000),
    Frame("dict", "NSE:TCS-EQ", TRUE, 101000, 100000),
    Frame("dict", "NSE:INFY-EQ", TRUE, 100310, 100000),
    Frame("dict", "NSE:INFY-EQ", TRUE, 103000, 100000),
    Frame("dict", "NSE:RELIANCE-EQ", TRUE, 99000, 100000),
    Frame("dict", "NSE:WIPRO-EQ", TRUE, 700000000, 690000000) }

DecideAnswers ==
  { [selling_pressure |-> 80, volume_ratio |-> 30],
    [selling_pressure |-> 40, volume_ratio |-> 12] }

DcSockMessage ==
  \E frame \in DecideFrames :
    SockMessage(1, frame) /\ UNCHANGED <<n_ws, last_call, engVars, fbVars, gwVars, obsVars>>

DcCycleMonitor == CycleMonitor /\ UNCHANGED <<wsVars, sockVars, consVars, fbVars, gwVars, obsVars>>

DcCycleNoSignals ==
  \E signal_time \in BOOLEAN :
    CycleNoSignals(signal_time) /\ UNCHANGED <<wsVars, sockVars, consVars, fbVars, gwVars, obsVars>>

DcGenerateBegin ==
  GenerateBegin(TRUE) /\ UNCHANGED <<wsVars, sockVars, consVars, fbVars, gwVars, obsVars>>

DcGenerateSymbol ==
  \E a \in DecideAnswers :
    /\ GenerateSymbol(a.selling_pressure, a.volume_ratio)
    /\ UNCHANGED <<wsVars, sockVars, consVars, fbVars, gwVars, obsVars>>

DcGenerateSort == GenerateSort /\ UNCHANGED <<wsVars, sockVars, consVars, fbVars, gwVars, obsVars>>

DcExecuteNext == ExecuteNext /\ UNCHANGED <<wsVars, sockVars, consVars, fbVars, gwVars, obsVars>>

DcExecuteDone == ExecuteDone /\ UNCHANGED <<wsVars, sockVars, consVars, fbVars, gwVars, obsVars>>

DecideNext ==
  \/ DcSockMessage
  \/ DcCycleMonitor
  \/ DcCycleNoSignals
  \/ DcGenerateBegin
  \/ DcGenerateSymbol
  \/ DcGenerateSort
  \/ DcExecuteNext
  \/ DcExecuteDone

SpecDecide == EngineInit /\ [][DecideNext]_vars

\* ------------------------------------------- the cycle and the analysis service
\* The engine after initialize() with the analysis service behind it: for every
\* instrument that passes the gap filter the two analysis calls ask yfinance
\* for a history, which raises, or returns too few bars, a falling series, a
\* flat series, or the flat series with no volume of a halted instrument.
HistoryFalling ==
  History(TRUE, << Bar(106, 105, 100), Bar(105, 104, 100), Bar(104, 103, 100),
                   Bar(103, 102, 100), Bar(102, 101, 200), Bar(101, 100, 200) >>)

HistoryFlat ==
  History(TRUE, << Bar(100, 100, 100), Bar(100, 100, 100), Bar(100, 100, 100),
                   Bar(100, 100, 100), Bar(100, 100, 100) >>)

HistoryHalted ==
  History(TRUE, << Bar(100, 100, 0), Bar(100, 100, 0), Bar(100, 100, 0),
                   Bar(100, 100, 0), Bar(100, 100, 0) >>)

HistoryShort ==
  History(TRUE, << Bar(102, 101, 100), Bar(101, 100, 100), Bar(100, 99, 100) >>)

Histories ==
  { History(FALSE, <<>>), History(TRUE, <<>>), HistoryShort, HistoryFalling,
    HistoryFlat, HistoryHalted }

\* current_volume * (6.5 / market_hours_elapsed), from the live quote
EstimatedVolumes == {0, 400}

AnalysisFrames ==
  { Frame("dict", "NSE:TCS-EQ", TRUE, 101000, 100000),
    Frame("dict", "NSE:INFY-EQ", TRUE, 101000, 100000) }

\* the score as "selling_pressure >= min_selling_pressure" and the confidence
\* take it, in whole points; a nan compares false there, as a score of 0 does
AsPressure(score) == IF score.kind = "num" THEN score.v \div 100 ELSE 0

AnSockMessage ==
  \E frame \in AnalysisFrames :
    SockMessage(1, frame) /\ UNCHANGED <<n_ws, last_call, engVars, fbVars, gwVars, obsVars>>

AnCycleMonitor == CycleMonitor /\ UNCHANGED <<wsVars, sockVars, consVars, fbVars, gwVars, obsVars>>

AnCycleNoSignals ==
  \E signal_time \in BOOLEAN :
    CycleNoSignals(signal_time) /\ UNCHANGED <<wsVars, sockVars, consVars, fbVars, gwVars, obsVars>>

AnGenerateBegin ==
  GenerateBegin(TRUE) /\ UNCHANGED <<wsVars, sockVars, consVars, fbVars, gwVars, obsVars>>

\* one turn of the loop of _generate_signals; the analysis service is called
\* when the symbol has a quote that passes the gap filter
AnGenerateSymbolOf(pressure_hist, volume_hist, estimated) ==
  LET symbol == StockOrder[gen_next]
      called == /\ live_quotes[symbol] # NoQuote
                /\ live_quotes[symbol].change_pct >= min_gap_percentage
      score  == CalculateSellingPressureScore(pressure_hist)
      ratio  == CalculateVolumeRatio(volume_hist, estimated)
  IN /\ eng_pc = "gen" /\ gen_next <= Len(StockOrder)
     /\ GenerateSymbol(AsPressure(score), ratio)
     /\ analysis' = IF called
                    THEN Analysis(pressure_hist, volume_hist, score, ratio)
                    ELSE analysis
     /\ UNCHANGED <<wsVars, sockVars, consVars, fbVars, gwVars, run_pc, clock, max_reconnect_attempts,
                    dispatch_log, phase_quotes, last_cycle>>

AnGenerateSymbol ==
  \E pressure_hist \in Histories, volume_hist \in Histories, estimated \in EstimatedVolumes :
    AnGenerateSymbolOf(pressure_hist, volume_hist, estimated)

AnGenerateSort == GenerateSort /\ UNCHANGED <<wsVars, sockVars, consVars, fbVars, gwVars, obsVars>>

AnExecuteNext == ExecuteNext /\ UNCHANGED <<wsVars, sockVars, consVars, fbVars, gwVars, obsVars>>

AnExecuteDone == ExecuteDone /\ UNCHANGED <<wsVars, sockVars, consVars, fbVars, gwVars, obsVars>>

AnalysisNext ==
  \/ AnSockMessage
  \/ AnCycleMonitor
  \/ AnCycleNoSignals
  \/ AnGenerateBegin
  \/ AnGenerateSymbol
  \/ AnGenerateSort
  \/ AnExecuteNext
  \/ AnExecuteDone

SpecAnalysis == EngineInit /\ [][AnalysisNext]_vars

\* ------------------------------------------------- GapUpStrategy.initialize()
\* run() up to its loop: initialize() connects the engine's channel, the
\* FyersWebSocketService built in __init__, and subscribes every instrument;
\* a false answer of either call makes initialize() return False and run()
\* return before its loop. No other channel is built by the engine.
InitializeBegin ==
  /\ run_pc = "none"
  /\ ws_pc[1] = "idle"
  /\ run_pc' = "init"
  /\ WsConnectCall(1) \/ WsConnectRaises(1)

\* "if not self.websocket_service.connect(): return False", and run() returns
InitializeConnectFailed ==
  /\ run_pc = "init"
  /\ ws_pc[1] = "idle"
  /\ ws_ret[1] = "false"
  /\ run_pc' = "done"
  /\ last_call' = Call("initialize", "engine", 1, FALSE)

\* "if not self.websocket_service.subscribe_symbols(symbols): return False"
\* and otherwise "return True", after which run() enters its loop
InitializeSubscribe(sent) ==
  /\ run_pc = "init"
  /\ ws_pc[1] = "idle"
  /\ ws_ret[1] = "true"
  /\ WsSubscribe(1, Range(StockOrder), sent)
  /\ run_pc' = IF WsSubscribeRet(1, sent) THEN "loop" ELSE "done"
  /\ last_call' = Call("initialize", "engine", 1, WsSubscribeRet(1, sent))

InBegin ==
  /\ InitializeBegin
  /\ UNCHANGED <<n_ws, consVars, engVars, fbVars, gwVars,
                 max_reconnect_attempts, analysis, dispatch_log, phase_quotes,
                 last_cycle, clock>>

InWait ==
  /\ run_pc = "init"
  /\ WsWait(1)
  /\ UNCHANGED <<n_ws, consVars, engVars, fbVars, gwVars, obsVars>>

InConnectReturn ==
  /\ run_pc = "init"
  /\ WsConnectReturn(1)
  /\ UNCHANGED <<n_ws, consVars, engVars, fbVars, gwVars, obsVars>>

InConnectFailed ==
  /\ InitializeConnectFailed
  /\ UNCHANGED <<n_ws, wsVars, sockVars, live_quotes, delivered, last_src,
                 engVars, fbVars, gwVars,
                 max_reconnect_attempts, analysis, dispatch_log, phase_quotes,
                 last_cycle, clock>>

InSubscribe ==
  /\ \E sent \in BOOLEAN : InitializeSubscribe(sent)
  /\ UNCHANGED <<n_ws, ws_is_connected, ws_reconnect_count, ws_live_quotes,
                 ws_data_callbacks, ws_fyers_socket, ws_pc, ws_waited, ws_ret,
                 ws_timed_out, sockVars, live_quotes, delivered, last_src,
                 engVars, fbVars, gwVars,
                 max_reconnect_attempts, analysis, dispatch_log, phase_quotes,
                 last_cycle, clock>>

InSockOpen == run_pc # "none" /\ StSockOpen

InSockClose == run_pc # "none" /\ StSockClose

InSockError == run_pc # "none" /\ StSockError

InSockRetry == run_pc # "none" /\ StSockRetry

InSockMessage == run_pc # "none" /\ StSockMessage

InitializeNext ==
  \/ InBegin
  \/ InWait
  \/ InConnectReturn
  \/ InConnectFailed
  \/ InSubscribe
  \/ InSockOpen
  \/ InSockClose
  \/ InSockError
  \/ InSockRetry
  \/ InSockMessage

SpecInitialize == StreamInit /\ [][InitializeNext]_vars

\* ------------------------------------------------ the two symbol tables
\* The polling channel of SpecPoll, subscribed to instruments of the streaming
\* channel's table; the venue answers a request under the name it was asked.
CatalogSymbolSets == { {"TCS.NS"}, {"WIPRO.NS"}, {"TCS.NS", "WIPRO.NS"} }

CatalogResponses ==
  { Response("ok", "NSE:TCS-EQ", 101000, 100000),
    Response("ok", "NSE:TCS-EQ", 102000, 100000),
    Response("ok", "WIPRO.NS", 101000, 100000),
    Response("ok", "WIPRO.NS", 102000, 100000),
    Response("error", "NSE:TCS-EQ", 0, 0) }

CaSubscribe ==
  \E symbols \in CatalogSymbolSets :
    /\ fb_subscribed_symbols' = FbSubscribe(fb_subscribed_symbols, 1, symbols)
    /\ last_call' = Call("subscribe", "fb", 1, TRUE)
    /\ UNCHANGED <<n_fb, fb_is_connected, fb_stop_event, fb_live_quotes,
                   fb_data_callbacks, fb_threads, live_quotes, delivered, last_src,
                   wsVars, sockVars, engVars, gwVars, obsVars>>

CaUnsubscribe ==
  \E symbols \in CatalogSymbolSets :
    /\ fb_subscribed_symbols' = FbUnsubscribe(fb_subscribed_symbols, 1, symbols)
    /\ last_call' = Call("unsubscribe", "fb", 1, TRUE)
    /\ UNCHANGED <<n_fb, fb_is_connected, fb_stop_event, fb_live_quotes,
                   fb_data_callbacks, fb_threads, live_quotes, delivered, last_src,
                   wsVars, sockVars, engVars, gwVars, obsVars>>

CaPoll == \E r \in CatalogResponses : PoPollOf(r)

CatalogNext ==
  \/ PoConnect
  \/ PoDisconnect
  \/ CaSubscribe
  \/ CaUnsubscribe
  \/ CaPoll
  \/ PoPollExit

SpecCatalog == PollInit /\ [][CatalogNext]_vars

\* ------------------------------------------ the gateway's subscriptions
\* One HybridFyersDataService, connected once, and its subscribe and
\* unsubscribe calls against the events of its streaming socket; the control
\* frame of a call is sent or its send raises.
SubscriptionSets == { {"TCS.NS"}, {"INFY.NS"}, {"TCS.NS", "INFY.NS"} }

\* the subscribed_symbols of the service the gateway delegates to
ActiveSubscribedSymbols ==
  CASE ActiveService[1] = "ws" -> ws_subscribed_symbols[ActiveService[2]]
    [] ActiveService[1] = "fb" -> fb_subscribed_symbols[ActiveService[2]]
    [] OTHER -> {}

SuConnectBegin == n_ws = 0 /\ HyConnectBegin

SuSubscribe ==
  \E symbols \in SubscriptionSets, sent \in BOOLEAN :
    GwSubscribe(symbols, sent) /\ UNCHANGED <<engVars, obsVars>>

SuUnsubscribe ==
  \E symbols \in SubscriptionSets, sent \in BOOLEAN :
    GwUnsubscribe(symbols, sent) /\ UNCHANGED <<engVars, obsVars>>

SubscriptionsNext ==
  \/ SuConnectBegin
  \/ HyPrimaryWait
  \/ HyPrimaryReturn
  \/ HyConnectFinish
  \/ HySockOpen
  \/ HySockClose
  \/ SuSubscribe
  \/ SuUnsubscribe

SpecSubscriptions == GatewayInit /\ [][SubscriptionsNext]_vars

\* ------------------------------------------------- dispatch to the callbacks
\* A connected streaming channel on its open socket and a connected polling
\* channel with its thread, both subscribed; consumers register on either, one
\* of them with a callback that raises; frames and replies arrive.
DispatchOrder == <<"cb1", "faulty", "engine", "cb2">>

DispatchFrames ==
  { Frame("dict", "NSE:TCS-EQ", TRUE, 101000, 100000),
    Frame("dict", "NSE:TCS-EQ", TRUE, 102000, 100000),
    Frame("dict", "NSE:SUNPHARMA-EQ", TRUE, 101000, 100000) }

DispatchResponses ==
  { Response("ok", "NSE:TCS-EQ", 101000, 100000),
    Response("ok", "NSE:TCS-EQ", 103000, 100000),
    Response("error", "NSE:TCS-EQ", 0, 0) }

DispatchInit ==
  /\ ObsInit
  /\ n_ws = 1
  /\ ws_is_connected = [i \in WsIds |-> i = 1]
  /\ ws_reconnect_count = [i \in WsIds |-> 0]
  /\ ws_subscribed_symbols = [i \in WsIds |-> IF i = 1 THEN PollSymbols ELSE {}]
  /\ ws_live_quotes = [i \in WsIds |-> EmptyQuotes]
  /\ ws_data_callbacks = [i \in WsIds |-> <<>>]
  /\ ws_fyers_socket = [i \in WsIds |-> IF i = 1 THEN 1 ELSE 0]
  /\ ws_pc = [i \in WsIds |-> "idle"]
  /\ ws_waited = [i \in WsIds |-> 0]
  /\ ws_ret = [i \in WsIds |-> IF i = 1 THEN "true" ELSE "none"]
  /\ ws_timed_out = [i \in WsIds |-> FALSE]
  /\ ws_link = [i \in WsIds |-> "fresh"]
  /\ ws_sent = [i \in WsIds |->
                  IF i = 1 THEN {WsToVenue(s) : s \in PollSymbols} ELSE {}]
  /\ n_sock = 1
  /\ sock_owner = [k \in SockIds |-> IF k = 1 THEN 1 ELSE 0]
  /\ sock_state = [k \in SockIds |-> IF k = 1 THEN "open" ELSE "none"]
  /\ sock_attempts = [k \in SockIds |-> 0]
  /\ ConsInit
  /\ EngInit
  /\ GwInit
  /\ n_fb = 1
  /\ fb_is_connected = [j \in FbIds |-> j = 1]
  /\ fb_stop_event = [j \in FbIds |-> FALSE]
  /\ fb_subscribed_symbols = [j \in FbIds |-> IF j = 1 THEN PollSymbols ELSE {}]
  /\ fb_live_quotes = [j \in FbIds |-> EmptyQuotes]
  /\ fb_data_callbacks = [j \in FbIds |-> <<>>]
  /\ fb_threads = [j \in FbIds |-> IF j = 1 THEN 1 ELSE 0]

DiWsAddCallback ==
  /\ Len(ws_data_callbacks[1]) < Len(DispatchOrder)
  /\ ws_data_callbacks' =
       WsAddDataCallback(ws_data_callbacks, 1, DispatchOrder[Len(ws_data_callbacks[1]) + 1])
  /\ UNCHANGED <<n_ws, ws_is_connected, ws_reconnect_count, ws_subscribed_symbols,
                 ws_live_quotes, ws_fyers_socket, ws_pc, ws_waited, ws_ret,
                 ws_timed_out, ws_link, ws_sent, sockVars, consVars, engVars, fbVars,
                 gwVars, obsVars>>

DiFbAddCallback ==
  /\ Len(fb_data_callbacks[1]) < Len(DispatchOrder)
  /\ fb_data_callbacks' =
       FbAddDataCallback(fb_data_callbacks, 1, DispatchOrder[Len(fb_data_callbacks[1]) + 1])
  /\ UNCHANGED <<n_fb, fb_is_connected, fb_stop_event, fb_subscribed_symbols,
                 fb_live_quotes, fb_threads, wsVars, sockVars, consVars, engVars,
                 gwVars, obsVars>>

DiMessage(frame) ==
  /\ SockMessage(1, frame)
  /\ last_call' = Call("_process_fyers_data", frame.symbol, 1, WsAccepts(frame))
  /\ UNCHANGED <<n_ws, engVars, fbVars, gwVars, obsVars>>

DiSockMessage == \E frame \in DispatchFrames : DiMessage(frame)

DiPoll == \E r \in DispatchResponses : PoPollOf(r)

DispatchNext ==
  \/ DiWsAddCallback
  \/ DiFbAddCallback
  \/ DiSockMessage
  \/ DiPoll

SpecDispatch == DispatchInit /\ [][DispatchNext]_vars

\* ------------------------------------------------------------------ claims
\* C1: the engine never holds more than max_positions positions, and never
\* two positions on one instrument.
C1_PositionLimit ==
  /\ Cardinality(positions) <= max_positions
  /\ \A p, q \in positions : p.symbol = q.symbol => p = q

\* one slot was free, two signals were generated, and the first has been
\* executed: the set is full and the second signal is still to be read
C1_Witness ==
  /\ Cardinality(positions) = max_positions
  /\ eng_pc = "exec" /\ exec_next = 2 /\ available_slots = 1
  /\ Len(signals) > 1
  /\ \E p \in positions : p.symbol = signals[1].symbol

\* C2: a position that stays open keeps its entry price, quantity, stop and
\* target: as long as the instrument has a position, it is the same record.
C2_PositionFrozen ==
  [][\A p \in positions :
       (\E q \in positions' : q.symbol = p.symbol) => p \in positions']_vars

\* C3: when connect() has returned, its outcome follows the two attempts: the
\* polling service was tried only after the streaming connect failed;
\* streaming success gives True with the fallback flag false; streaming
\* failure and polling success give True with the flag true; two failures
\* give False.
C3_ConnectOutcome ==
  (gw_pc = "idle" /\ gw_ret # "none")
    => /\ gw_poll # "none" => gw_stream = "false"
       /\ gw_stream = "true" => (gw_ret = "true" /\ ~gw_using_fallback)
       /\ (gw_stream = "false" /\ gw_poll = "true")
            => (gw_ret = "true" /\ gw_using_fallback)
       /\ (gw_stream = "false" /\ gw_poll = "false") => gw_ret = "false"

\* C4: after a connect() that succeeded, the gateway delegates to the channel
\* on which that connect() succeeded, and the fallback flag is true exactly
\* when that channel is the polling one.
C4_DelegatesToSelected ==
  (gw_pc = "idle" /\ gw_ret = "true")
    => /\ ActiveService = gw_selected
       /\ gw_using_fallback <=> gw_selected[1] = "fb"

\* C5: after connect() has returned False, and until connect() is called
\* again, no subscribe on the gateway returns True and none of its channels
\* accepts a quote update.
C5_UnusableAfterFailure ==
  (gw_pc = "idle" /\ gw_ret = "false")
    => /\ last_call # Call("subscribe", "gw", 0, TRUE)
       /\ last_src = NoChannel

\* C6: outside connect() the selected mode never changes: no step that starts
\* and ends outside connect() alters the fallback flag or the service the
\* gateway delegates to, whatever the sockets do.
C6_ModeChangesOnlyInConnect ==
  [][(gw_pc = "idle" /\ gw_pc' = "idle")
       => /\ gw_using_fallback' = gw_using_fallback
          /\ ActiveService' = ActiveService]_vars

\* streaming was selected, its socket has used up its retries, and the
\* gateway is still in streaming mode
C6_Witness ==
  /\ gw_pc = "idle" /\ gw_ret = "true"
  /\ gw_selected = <<"ws", gw_primary_service>>
  /\ ~gw_using_fallback
  /\ sock_state[ws_fyers_socket[gw_primary_service]] = "failed"

\* C7: the streaming and the polling services one gateway has created are
\* never connected at the same time.
C7_OneChannelConnected ==
  \A i \in WsIds, j \in FbIds :
    (i <= n_ws /\ j <= n_fb) => ~(ws_is_connected[i] /\ fb_is_connected[j])

\* C8: once some connect() has succeeded, every update accepted by the
\* channel the gateway delegates to has invoked every callback registered on
\* the gateway exactly once.
C8_EachCallbackOnce ==
  (gw_pc = "idle" /\ gw_selected # NoChannel /\ last_src # NoChannel
     /\ last_src = ActiveService)
    => \A c \in Range(gw_data_callbacks) : delivered[c] = 1

C10_ResubscribesOnReconnect ==
  \A i \in WsIds :
    (ws_link[i] = "resumed" /\ ws_is_connected[i] /\ ws_pc[i] = "idle"
       /\ last_call = Call("subscribe", "ws", i, TRUE))
      => {WsToVenue(s) : s \in ws_subscribed_symbols[i]} \subseteq ws_sent[i]

\* C11: after a closure or a transport error the channel makes at most the
\* configured number (ws_config.max_reconnect_attempts) of automatic reconnect
\* attempts: no socket of the channel has made more attempts since it was last
\* open than the configuration allows.
C11_BoundedByConfiguration ==
  \A k \in SockIds :
    k <= n_sock => sock_attempts[k] <= max_reconnect_attempts

\* C12: subscribe_symbols and unsubscribe_symbols called while the channel is
\* not connected return False, send no frame and leave the channel's
\* subscribed set as it was.
C12_NoOpWhenNotConnected ==
  [][ ((StSubscribe \/ StUnsubscribe) /\ ~ws_is_connected[1])
        => /\ ~last_call'.ret
           /\ UNCHANGED <<ws_subscribed_symbols, ws_sent>> ]_vars

\* unsubscribe_symbols has returned False on a channel that has lost its
\* connection and still holds everything subscribed before
C12_Witness ==
  /\ last_call = Call("unsubscribe", "ws", 1, FALSE)
  /\ ~ws_is_connected[1]
  /\ ws_subscribed_symbols[1] = {"TCS.NS", "INFY.NS"}

\* C13: after disconnect() has returned, and until connect() is called again,
\* the channel is not connected: while the socket connect() built last is the
\* one disconnect() closed, no open, close or error event sets the flag again.
C13_DisconnectIsFinal ==
  (ws_fyers_socket[1] # 0 /\ sock_state[ws_fyers_socket[1]] = "stopped")
    => ~ws_is_connected[1]

\* C14: an inbound frame produces a quote update (the store is written and the
\* callbacks are called) if and only if it is an object with a known venue
\* symbol and a last-price field; any other frame leaves the store unchanged
\* and calls no callback.
C14_UpdateIffSymbolAndPrice ==
  [][ \A frame \in FrameInputs :
        FrMessage(frame) =>
          IF frame.kind = "dict" /\ WsToInternal(frame.symbol) # "" /\ frame.has_ltp
          THEN /\ ws_live_quotes'[1][WsToInternal(frame.symbol)] = WsFrameQuote(frame)
               /\ Len(dispatch_log') = Len(ws_data_callbacks[1])
          ELSE /\ UNCHANGED ws_live_quotes
               /\ dispatch_log' = <<>> ]_vars

\* C17: the store holds one quote per instrument and the last write wins: an
\* accepted update replaces the quote of its instrument and no other, nothing
\* else changes the store, get_live_quote returns what is stored (none if the
\* instrument never had an update), and a stored quote carries the identifier
\* of the instrument it is stored under.
C17_LastWriteWins ==
  [][ /\ \A frame \in FrameInputs :
           (FrMessage(frame) /\ WsAccepts(frame)) =>
             /\ ws_live_quotes'[1] =
                  [ws_live_quotes[1] EXCEPT
                     ![WsToInternal(frame.symbol)] = WsFrameQuote(frame)]
             /\ WsGetLiveQuote(1, WsToInternal(frame.symbol))' = WsFrameQuote(frame)
      /\ (~ \E frame \in FrameInputs : FrMessage(frame) /\ WsAccepts(frame))
           => UNCHANGED ws_live_quotes
      /\ \A s \in Symbols :
           ws_live_quotes'[1][s] # NoQuote => ws_live_quotes'[1][s].symbol = s ]_vars

\* a second update for TCS.NS has replaced the first: the store holds 102.000
\* and the engine's callback was called while its view still held 101.000
C17_Witness ==
  /\ WsGetLiveQuote(1, "TCS.NS").ltp = 102000
  /\ Len(dispatch_log) >= 1
  /\ dispatch_log[1].callback = "engine"
  /\ dispatch_log[1].view.ltp = 101000
  /\ WsGetLiveQuote(1, "INFY.NS") = NoQuote

\* C19: for every accepted update the quote is in the channel's store before
\* any callback is called, the callbacks are called once each in registration
\* order, the engine's callback (registered at construction) is the first, and
\* every callback called after it finds the new quote in the engine's view;
\* the view the loop leaves is the one the dispatch leaves.
C19_StoreThenCallbacksInOrder ==
  [][ \A frame \in FrameInputs :
        (FrMessage(frame) /\ WsAccepts(frame)) =>
          /\ Len(dispatch_log') = Len(ws_data_callbacks[1])
          /\ ws_data_callbacks[1][1] = "engine"
          /\ \A k \in 1..Len(dispatch_log') :
               /\ dispatch_log'[k].callback = ws_data_callbacks[1][k]
               /\ dispatch_log'[k].store = WsFrameQuote(frame)
               /\ k > 1 => dispatch_log'[k].view = WsFrameQuote(frame)
          /\ live_quotes' = RunCallbacks(ws_data_callbacks[1], ws_live_quotes'[1],
                                         live_quotes, WsToInternal(frame.symbol),
                                         WsFrameQuote(frame)).view ]_vars

\* an update to 102.000 for TCS.NS was dispatched to the engine's callback and
\* then to cb1: the engine's view held 101.000 when its callback was called and
\* 102.000 when cb1 was called
C19_Witness ==
  /\ Len(dispatch_log) = 2
  /\ dispatch_log[1].callback = "engine" /\ dispatch_log[1].view.ltp = 101000
  /\ dispatch_log[2].callback = "cb1" /\ dispatch_log[2].view.ltp = 102000
  /\ dispatch_log[2].store.ltp = 102000

\* C15: in the polling channel a fetched quote of an instrument is handed to
\* the callbacks if and only if the channel held no quote for the instrument
\* or the fetched last price differs from the stored one; a fetch with an
\* unchanged price is stored and calls no callback (the consumer's view of the
\* instrument stays as it was).
C15_NotifiesIffPriceChanged ==
  [][ \A r \in PollResponses :
        (PoPollOf(r) /\ r.s = "ok") =>
          LET our_symbol == FbToInternal(r.symbol)
              old_quote  == fb_live_quotes[1][our_symbol]
              live_quote == LiveQuote(our_symbol, r.ltp, r.prev_close)
          IN /\ fb_live_quotes'[1][our_symbol] = live_quote
             /\ IF old_quote = NoQuote \/ old_quote.ltp # r.ltp
                THEN live_quotes'[our_symbol] = live_quote /\ last_src' = <<"fb", 1>>
                ELSE UNCHANGED <<live_quotes, delivered, last_src>> ]_vars

\* a fetch brought TCS.NS at the stored price 101.000 with another previous
\* close: the store holds the fetched quote, the consumer still the earlier one
C15_Witness ==
  /\ last_call = Call("_fetch_quotes", "fb", 1, TRUE)
  /\ fb_live_quotes[1]["TCS.NS"].ltp = 101000
  /\ live_quotes["TCS.NS"].ltp = 101000
  /\ fb_live_quotes[1]["TCS.NS"] # live_quotes["TCS.NS"]

\* C16: the polling channel's connect() returns True exactly when the probe
\* succeeded, and then the channel is connected; a quote request that fails
\* (a reply that is not 'ok', or an exception) leaves the channel connected
\* with its polling loop running and able to fetch again; a polling loop ends
\* and the connected flag is cleared only once disconnect() has been called.
C16_FailuresDoNotTearDown ==
  /\ [](last_call = Call("_fetch_quotes", "fb", 1, FALSE)
          => /\ fb_is_connected[1] /\ ~fb_stop_event[1] /\ fb_threads[1] > 0
             /\ ENABLED PoPoll)
  /\ [][ /\ \A profile_ok \in BOOLEAN :
              PoConnectOf(profile_ok) =>
                /\ last_call'.ret = profile_ok
                /\ fb_is_connected'[1] = (fb_is_connected[1] \/ profile_ok)
         /\ \A r \in PollResponses :
              PoPollOf(r) => UNCHANGED <<fb_is_connected, fb_stop_event, fb_threads>>
         /\ (fb_threads'[1] < fb_threads[1] \/ (fb_is_connected[1] /\ ~fb_is_connected'[1]))
              => fb_stop_event'[1] ]_vars

\* connect() has succeeded, a later request failed, and the channel is still
\* connected with a polling loop running and the quotes fetched before
C16_Witness ==
  /\ last_call = Call("_fetch_quotes", "fb", 1, FALSE)
  /\ fb_is_connected[1] /\ fb_threads[1] = 1
  /\ fb_live_quotes[1]["TCS.NS"].ltp = 102000

\* C18: the generate phase of a cycle works on the quotes as they were when
\* the phase began: the signals each turn of its loop adds are the ones the
\* view at the start of the phase gives, whatever update the channel thread
\* has dispatched since.
C18_PhaseReadsOneSnapshot ==
  [][ \A a \in AnalysisAnswers :
        CyGenerateSymbolOf(a) =>
          signals' = signals \o SignalsFor(phase_quotes, StockOrder[gen_next],
                                           a.selling_pressure, a.volume_ratio) ]_vars

\* C20: a cycle run while is_trading_time() answers False changes neither the
\* positions nor the daily nor the cumulative P&L, whatever the quotes are.
C20_SkippedCycleChangesNothing ==
  [][ CyCycleSkipped =>
        UNCHANGED <<positions, daily_pnl, total_pnl, n_closed>> ]_vars

\* the latest cycle was skipped while an open position's quote was beyond its
\* stop or its target; the position is still open
C20_Witness ==
  /\ last_cycle.outcome = "skipped"
  /\ last_cycle.due # {}
  /\ \A s \in last_cycle.due : \E q \in positions : q.symbol = s
  /\ n_closed = 0

\* C21: the monitor step closes every open short position whose current price
\* is at or above its stop with reason STOP_LOSS and every one whose price is
\* at or below its target with reason TARGET, with P&L (entry - current) x
\* |quantity| (mirrored for a long position, P&L (current - entry) x
\* quantity); a position that has crossed neither level, or has no quote,
\* stays open.
C21_MonitorClosesAtStopOrTarget ==
  [][ CyCycleMonitor =>
        \A q \in positions :
          LET quote == live_quotes[q.symbol]
              price == quote.ltp
              short == q.quantity < 0
              pnl   == IF short THEN (q.entry_price - price) * (-q.quantity)
                       ELSE (price - q.entry_price) * q.quantity
              stop  == IF short THEN price >= q.stop_loss ELSE price <= q.stop_loss
              tgt   == IF short THEN price <= q.target_price ELSE price >= q.target_price
          IN IF quote = NoQuote THEN q \in positions'
             ELSE IF stop
             THEN /\ q \notin positions'
                  /\ [symbol |-> q.symbol, reason |-> "STOP_LOSS", pnl |-> pnl] \in last_closed'
             ELSE IF tgt
             THEN /\ q \notin positions'
                  /\ [symbol |-> q.symbol, reason |-> "TARGET", pnl |-> pnl] \in last_closed'
             ELSE q \in positions' ]_vars

\* the latest monitor step closed the TCS.NS short (entry 101.000) at its stop,
\* at 103.000, with a loss
C21_Witness ==
  /\ last_cycle.outcome = "ran"
  /\ last_cycle.due = {"TCS.NS"}
  /\ \E e \in last_closed : e.reason = "STOP_LOSS" /\ e.pnl < 0 /\ e.symbol = "TCS.NS"
  /\ positions = {}

C23_OpensOnlyInWindowWithSlot ==
  [][ LET free    == max_positions - Cardinality(positions)
          in_gate == clock = "signal" /\ free > 0
      IN /\ (eng_pc' \in {"gen", "exec"}) =>
               \/ eng_pc \in {"gen", "exec"}
               \/ eng_pc = "monitored" /\ in_gate /\ available_slots' = free
         /\ (\E q \in positions' : q \notin positions) =>
               eng_pc = "exec" /\ available_slots > 0
         /\ (eng_pc = "monitored" /\ ~in_gate) =>
               positions' = positions /\ eng_pc' \in {"monitored", "idle"} ]_vars

\* the gate was passed in the signal window with all three slots free, and the
\* first accepted signal has become a position; the window has closed since
C23_Witness ==
  /\ run_pc = "loop"
  /\ eng_pc = "exec" /\ exec_next = 2 /\ available_slots = max_positions
  /\ Cardinality(positions) = 1
  /\ clock = "late"

\* C28: no error raised inside a strategy cycle (in monitoring, in signal
\* generation, in execution or in the cycle's own code) ends the run loop:
\* after it the loop is still running and starts later cycles, and the loop
\* ends only by the shutdown.
C28_CycleErrorsDoNotEndLoop ==
  /\ [][ (RnMonitorRaises \/ RnCycleRaises \/ RnGenerateRaises \/ RnExecuteRaises)
           => run_pc' = "loop" ]_vars
  /\ [][ (run_pc = "loop" /\ run_pc' # "loop") => RnShutdown ]_vars
  /\ [](run_pc = "loop" /\ eng_pc = "idle" /\ ~(clock \in {"signal", "late"})
          => ENABLED RnCycleSkipped)

\* a cycle met an error, and the loop has started a later cycle, which has
\* monitored the positions
C28_Witness ==
  /\ run_pc = "loop"
  /\ last_cycle.outcome = "resumed"
  /\ eng_pc = "monitored"
  /\ positions # {}

\* C29: when the run loop ends on shutdown the engine has disconnected its
\* channel by the time run() returns, and the channel does not come back
\* afterwards.
C29_DisconnectedAfterShutdown ==
  /\ [](run_pc = "done" =>
          /\ ~ws_is_connected[1]
          /\ sock_state[ws_fyers_socket[1]] = "stopped")
  /\ [][ (run_pc = "loop" /\ run_pc' = "done") => ~ws_is_connected'[1] ]_vars

\* run() has returned after a shutdown that found the channel connected and a
\* position open: the channel is disconnected and its socket closed
C29_Witness ==
  /\ run_pc = "done"
  /\ ~ws_is_connected[1]
  /\ sock_state[1] = "stopped"
  /\ positions # {}
  /\ last_cycle.outcome = "ran"

\* C24: the market-wide gate passes exactly when, among the basket
\* instruments that have a live quote, the fraction whose last price is more
\* than 0.3% above the previous close is above 60% (it fails when none has a
\* quote); when it fails the cycle makes no signal and opens no position.
C24_GateIffBasketMostlyUp ==
  [][ DcGenerateBegin =>
        LET quoted == {s \in {"RELIANCE.NS", "TCS.NS", "HDFCBANK.NS", "INFY.NS"} :
                         live_quotes[s] # NoQuote}
            up     == {s \in quoted :
                         /\ live_quotes[s].previous_close > 0
                         /\ (live_quotes[s].ltp - live_quotes[s].previous_close) * 1000
                              > 3 * live_quotes[s].previous_close}
            pass   == quoted # {} /\ 5 * Cardinality(up) > 3 * Cardinality(quoted)
        IN IF pass
           THEN eng_pc' = "gen"
           ELSE /\ eng_pc' = "idle"
                /\ signals' = <<>>
                /\ positions' = positions ]_vars

\* two of the three quoted basket members are up by more than 0.3% (TCS.NS by
\* 1%, INFY.NS by 0.31%, RELIANCE.NS is down): the gate has passed
C24_Witness ==
  /\ eng_pc = "gen" /\ gen_next = 1
  /\ live_quotes["TCS.NS"].ltp = 101000
  /\ live_quotes["INFY.NS"].ltp = 100310
  /\ live_quotes["RELIANCE.NS"].ltp = 99000
  /\ live_quotes["HDFCBANK.NS"] = NoQuote

\* C25: the candidates of a cycle are ranked by confidence, highest first, and
\* only the first (open slots) of them are considered: every accepted
\* candidate has at least the minimum confidence, none is accepted while a
\* candidate of strictly higher confidence that meets the minimum is still
\* unconsidered, and the cycle opens no more positions than the slots that
\* were open when generation began.
C25_BestCandidatesWithinSlots ==
  /\ [](eng_pc = "exec" =>
          /\ \A i, j \in 1..Len(signals) :
               i < j => signals[i].confidence >= signals[j].confidence
          /\ exec_next - 1 <= available_slots
          /\ Cardinality(positions) - (max_positions - available_slots) <= exec_next - 1)
  /\ [][ DcExecuteNext =>
           LET sig == signals[exec_next]
           IN /\ exec_next <= available_slots
              /\ positions' # positions =>
                   /\ sig.confidence >= min_confidence
                   /\ \A j \in 1..Len(signals) :
                        (signals[j].confidence > sig.confidence
                           /\ signals[j].confidence >= min_confidence) => j < exec_next
              /\ sig.confidence < min_confidence => positions' = positions ]_vars

\* INFY.NS, generated after TCS.NS but with the larger gap, was ranked first
\* and is the one position the single open slot admitted; TCS.NS also met the
\* minimum and was left out
C25_Witness ==
  /\ eng_pc = "exec" /\ exec_next = 2 /\ available_slots = 1
  /\ Len(signals) > 1
  /\ signals[1].symbol = "INFY.NS"
  /\ signals[2].symbol = "TCS.NS" /\ signals[2].confidence >= min_confidence
  /\ \E q \in positions : q.symbol = "INFY.NS" /\ q.entry_price = 103000

\* C26: for every accepted signal the quantity of the position is the risk
\* budget, portfolio value x risk percentage / 100, divided by |stop - entry|
\* and rounded down (1,000,000 at 1% with entry 100 and stop 101.5 gives
\* 6666); when the price risk is zero or that quantity is not positive the
\* signal is discarded and the position set stays as it was.
C26_QuantityIsRiskBudgetOverPriceRisk ==
  /\ [](CalculatePositionSize([entry_price |-> 100000, stop_loss |-> 101500]) = 6666)
  /\ [][ (DcExecuteNext /\ signals[exec_next].confidence >= min_confidence) =>
           LET sig    == signals[exec_next]
               budget == (portfolio_value * risk_per_trade_pct * 1000) \div 100
               risk   == IF sig.stop_loss >= sig.entry_price
                         THEN sig.stop_loss - sig.entry_price
                         ELSE sig.entry_price - sig.stop_loss
           IN IF risk = 0 \/ budget < risk
              THEN positions' = positions
              ELSE \E q \in positions' :
                     /\ q.symbol = sig.symbol
                     /\ q.entry_price = sig.entry_price
                     /\ Abs(q.quantity) * risk <= budget
                     /\ budget < (Abs(q.quantity) + 1) * risk ]_vars

\* the TCS.NS signal (entry 101.000, stop 102.515) has been sized to 6600
\* shares, and the WIPRO.NS signal, whose price risk is above the whole risk
\* budget, has been discarded
C26_Witness ==
  /\ eng_pc = "exec" /\ exec_next = 3
  /\ signals[1].symbol = "WIPRO.NS" /\ signals[1].confidence >= min_confidence
  /\ signals[2].symbol = "TCS.NS"
  /\ \E q \in positions : q.symbol = "TCS.NS" /\ Abs(q.quantity) = 6600
  /\ ~(\E q \in positions : q.symbol = "WIPRO.NS")

\* C27: every position in the position set is a short with a consistent
\* bracket: its quantity is below zero, its stop-loss is above its entry
\* price and its target is below its entry price.
C27_PositionsAreBracketedShorts ==
  \A q \in positions :
    /\ q.quantity < 0
    /\ q.stop_loss > q.entry_price
    /\ q.target_price < q.entry_price

\* two shorts are open, TCS.NS sold at 101.000 and INFY.NS at 103.000
C27_Witness ==
  /\ \E q \in positions : q.symbol = "TCS.NS" /\ q.entry_price = 101000 /\ q.quantity = -6600
  /\ \E q \in positions :
       /\ q.symbol = "INFY.NS" /\ q.entry_price = 103000
       /\ q.stop_loss = 104545 /\ q.target_price = 99910

\* C30: every quote constructed with a previous close above zero has change =
\* ltp - previous close and change percentage = change / previous close x 100
\* (here in hundredths of a percent, rounded down); every quote constructed
\* with a previous close of zero or less has change 0 and change percentage 0.
C30_QuoteChangeIsDerived ==
  \A s \in Symbols :
    LET q == ws_live_quotes[1][s]
    IN q # NoQuote =>
         IF q.previous_close > 0
         THEN /\ q.change = q.ltp - q.previous_close
              /\ q.change_pct * q.previous_close <= q.change * 10000
              /\ q.change * 10000 < (q.change_pct + 1) * q.previous_close
         ELSE q.change = 0 /\ q.change_pct = 0

\* the store holds a TCS.NS quote of 100.000 on a previous close of 99.000,
\* up 1.0101..%, and an INFY.NS quote that came with a negative previous close
C30_Witness ==
  /\ ws_live_quotes[1]["TCS.NS"].ltp = 100000
  /\ ws_live_quotes[1]["TCS.NS"].change = 1000
  /\ ws_live_quotes[1]["TCS.NS"].change_pct = 101
  /\ ws_live_quotes[1]["INFY.NS"].previous_close < 0
  /\ ws_live_quotes[1]["INFY.NS"].ltp = 101000
  /\ ws_live_quotes[1]["INFY.NS"].change = 0

\* C31: translation is a consistent bijection on the mapped instruments: for
\* every mapped internal identifier, translating to the venue and back gives
\* the identifier again; an unmapped identifier goes out unchanged; and an
\* inbound update whose venue identifier is not in the table is dropped, no
\* quote stored and no callback invoked.
C31_TranslationRoundTrip ==
  /\ [](/\ \A s \in {"RELIANCE.NS", "TCS.NS", "HDFCBANK.NS", "INFY.NS", "WIPRO.NS"} :
             WsToVenue(s) # s /\ WsToInternal(WsToVenue(s)) = s
        /\ \A s \in {"RELIANCE.NS", "TCS.NS", "HDFCBANK.NS", "INFY.NS"} :
             FbToVenue(s) # s /\ FbToInternal(FbToVenue(s)) = s
        /\ WsToVenue("SUNPHARMA.NS") = "SUNPHARMA.NS"
        /\ FbToVenue("SUNPHARMA.NS") = "SUNPHARMA.NS"
        /\ FbToVenue("WIPRO.NS") = "WIPRO.NS"
        /\ ws_live_quotes[1]["SUNPHARMA.NS"] = NoQuote
        /\ live_quotes["SUNPHARMA.NS"] = NoQuote)
  /\ [][ \A frame \in FrameInputs :
           (FrMessage(frame)
              /\ frame.symbol \notin {"NSE:RELIANCE-EQ", "NSE:TCS-EQ", "NSE:HDFCBANK-EQ",
                                      "NSE:INFY-EQ", "NSE:WIPRO-EQ"})
           => /\ ws_live_quotes' = ws_live_quotes
              /\ live_quotes' = live_quotes
              /\ delivered' = delivered
              /\ dispatch_log' = <<>> ]_vars

\* the channel holds a TCS.NS quote, and the latest frame, which carried the
\* venue identifier of an instrument outside the table, has left no quote
C31_Witness ==
  /\ last_call = Call("_process_fyers_data", "NSE:SUNPHARMA-EQ", 1, FALSE)
  /\ ws_live_quotes[1]["TCS.NS"] # NoQuote
  /\ ws_live_quotes[1]["SUNPHARMA.NS"] = NoQuote
  /\ dispatch_log = <<>>

\* C32: a failure of the historical-data collaborator during signal
\* evaluation degrades to the neutral defaults, selling pressure 0 and volume
\* ratio 1.0, and does not abort the cycle: no signal is built for the
\* instrument on a failed pressure history, the loop goes on to the remaining
\* instruments, and nothing else of the engine changes.
C32_HistoryFailureDegrades ==
  [][ (/\ AnGenerateSymbol
       /\ live_quotes[StockOrder[gen_next]] # NoQuote
       /\ live_quotes[StockOrder[gen_next]].change_pct >= min_gap_percentage)
      => /\ ~analysis'.pressure_hist.ok => /\ analysis'.selling_pressure = Num(0)
                                           /\ signals' = signals
         /\ ~analysis'.volume_hist.ok => analysis'.volume_ratio = 10
         /\ eng_pc' = "gen"
         /\ gen_next' = gen_next + 1
         /\ positions' = positions
         /\ daily_pnl' = daily_pnl /\ total_pnl' = total_pnl ]_vars

\* both histories failed for TCS.NS, the first instrument: the answers are 0
\* and 1.0, no signal was built, and the loop is on its way to INFY.NS, which
\* has a quote to evaluate
C32_Witness ==
  /\ eng_pc = "gen" /\ gen_next = 2
  /\ live_quotes["TCS.NS"].change_pct >= min_gap_percentage
  /\ live_quotes["INFY.NS"].change_pct >= min_gap_percentage
  /\ analysis = Analysis(History(FALSE, <<>>), History(FALSE, <<>>), Num(0), 10)
  /\ signals = <<>>

\* C36: the selling-pressure score is always a defined number in [0, 100]: 0
\* with fewer than period_days bars, and defined for an all-flat price series,
\* for which the RSI step yields 50 or 100 and no nan reaches the score.
C36_ScoreDefinedInRange ==
  /\ analysis.selling_pressure.kind = "num"
  /\ analysis.selling_pressure.v >= 0
  /\ analysis.selling_pressure.v <= 10000
  /\ (analysis.pressure_hist.ok /\ Len(analysis.pressure_hist.bars) < period_days)
       => analysis.selling_pressure = Num(0)

\* C33: when the streaming channel cannot connect while the polling channel
\* can (the venue's profile probe would answer 'ok' whenever it is asked), the
\* engine still initializes and is fed through the fallback: a streaming
\* connect() that answered false never ends run(), once initialize() is over
\* the engine's run loop is entered with a connected polling channel behind it,
\* and every update a channel accepts reaches the engine's quote view.
C33_EngineInitializesThroughFallback ==
  /\ [](ws_ret[1] = "false" => run_pc # "done")
  /\ []((ws_ret[1] = "false" /\ run_pc # "init")
          => (run_pc = "loop" /\ \E j \in FbIds : fb_is_connected[j]))
  /\ [][ \A k \in SockIds, frame \in StreamFrames :
           (SockMessage(k, frame) /\ WsAccepts(frame))
             => live_quotes'[WsToInternal(frame.symbol)] = WsFrameQuote(frame) ]_vars

\* C34: shutdown of the run loop is observed only between cycles: the step that
\* ends run() is never taken while a cycle is part-way, and in particular never
\* during the pause between two openings, when one accepted signal has been
\* opened and another selected one is still to be opened.
C34_ShutdownOnlyBetweenCycles ==
  [][ RnShutdown
        => /\ eng_pc = "idle"
           /\ ~(/\ eng_pc = "exec"
                /\ exec_next >= 2
                /\ exec_next <= Min(Len(signals), available_slots)) ]_vars

\* C35: the polling channel translates with the same table as the streaming
\* channel: every instrument the streaming channel maps goes to the same venue
\* name, and back, in the polling channel, and an 'ok' reply for a subscribed
\* instrument of the streaming table is stored in the polling channel's store
\* and handed to the consumer, as the streaming channel does with its frame.
C35_SameSymbolCatalog ==
  /\ [](\A s \in WsMapped :
          /\ FbToVenue(s) = WsToVenue(s)
          /\ FbToInternal(WsToVenue(s)) = s)
  /\ [][ \A r \in CatalogResponses, s \in WsMapped :
           (/\ PoPollOf(r) /\ r.s = "ok"
            /\ s \in fb_subscribed_symbols[1]
            /\ r.symbol = FbToVenue(s))
             => /\ fb_live_quotes'[1][s] = LiveQuote(s, r.ltp, r.prev_close)
                /\ live_quotes'[s] = LiveQuote(s, r.ltp, r.prev_close) ]_vars

\* C37: the gateway's connected flag never overstates the connection: whenever
\* the gateway reports is_connected (looked at between two of its connect()
\* calls), the channel it delegates to is connected,
\* and after a close or error event of the active streaming channel's socket
\* the gateway no longer reports itself connected.
C37_ConnectedFlagNeverOverstates ==
  /\ []((gw_is_connected /\ gw_pc = "idle")
          => \/ /\ ActiveService[1] = "ws"
                /\ ws_is_connected[ActiveService[2]]
             \/ /\ ActiveService[1] = "fb"
                /\ fb_is_connected[ActiveService[2]])
  /\ [][ \A k \in SockIds :
           (/\ SockClose(k) \/ SockError(k)
            /\ ActiveService = <<"ws", sock_owner[k]>>)
             => ~gw_is_connected' ]_vars

\* C38: after any sequence of gateway subscribe and unsubscribe calls the
\* gateway's own subscribed set equals that of the service it delegates to, and
\* a subscribe call that returns false leaves both sets as they were.
C38_SubscribedSetsAgree ==
  /\ []((gw_pc = "idle" /\ ActiveService # NoChannel)
          => gw_subscribed_symbols = ActiveSubscribedSymbols)
  /\ [][ (SuSubscribe /\ last_call' = Call("subscribe", "gw", 0, FALSE))
           => /\ gw_subscribed_symbols' = gw_subscribed_symbols
              /\ ws_subscribed_symbols' = ws_subscribed_symbols
              /\ fb_subscribed_symbols' = fb_subscribed_symbols ]_vars

\* C39: whenever connect() of the polling channel has returned true and the
\* subscribed set is not empty, exactly one polling loop is running for the
\* channel (one thread is alive and its loop condition holds, so that a quotes
\* request is its next step), also when the connect() follows a disconnect()
\* and when it is repeated without one.
C39_ExactlyOnePollingLoop ==
  (/\ last_call = Call("connect", "fb", 1, TRUE)
   /\ fb_subscribed_symbols[1] # {})
    => /\ fb_threads[1] = 1
       /\ ~fb_stop_event[1]
       /\ fb_is_connected[1]
       /\ ENABLED PoPoll

\* C40: a registered callback that raises while handling an update does not
\* disturb the dispatch of that update, in either channel: the channel's store
\* holds the new quote, every registered callback (those after the failing one
\* too) is called once for the update, the engine's view has the quote when
\* the engine is registered, and the channel is still connected with its
\* socket open (its polling thread alive), ready for the next update.
C40_RaisingCallbackDoesNotDisturb ==
  [][ /\ \A frame \in DispatchFrames :
           (/\ DiMessage(frame)
            /\ WsAccepts(frame)
            /\ \E k \in 1..Len(ws_data_callbacks[1]) : Raises(ws_data_callbacks[1][k]))
             => /\ ws_live_quotes'[1][WsToInternal(frame.symbol)] = WsFrameQuote(frame)
                /\ \A k \in 1..Len(ws_data_callbacks[1]) :
                     delivered'[ws_data_callbacks[1][k]] = 1
                /\ last_src' = <<"ws", 1>>
                /\ "engine" \in Range(ws_data_callbacks[1])
                     => live_quotes'[WsToInternal(frame.symbol)] = WsFrameQuote(frame)
                /\ ws_is_connected'[1]
                /\ sock_state'[1] = "open"
      /\ \A r \in DispatchResponses :
           (/\ PoPollOf(r)
            /\ r.s = "ok"
            /\ fb_live_quotes[1][FbToInternal(r.symbol)] = NoQuote
            /\ \E k \in 1..Len(fb_data_callbacks[1]) : Raises(fb_data_callbacks[1][k]))
             => /\ fb_live_quotes'[1][FbToInternal(r.symbol)] =
                     LiveQuote(FbToInternal(r.symbol), r.ltp, r.prev_close)
                /\ \A k \in 1..Len(fb_data_callbacks[1]) :
                     delivered'[fb_data_callbacks[1][k]] = 1
                /\ last_src' = <<"fb", 1>>
                /\ fb_is_connected'[1]
                /\ fb_threads'[1] = 1 ]_vars

\* a frame went through the streaming channel's dispatch with the raising
\* callback registered before the engine's and another consumer's
C40_Witness ==
  /\ ws_data_callbacks[1] = DispatchOrder
  /\ last_call = Call("_process_fyers_data", "NSE:TCS-EQ", 1, TRUE)
  /\ last_src = <<"ws", 1>>
  /\ delivered = [c \in Callbacks |-> 1]
  /\ ws_live_quotes[1]["TCS.NS"] = LiveQuote("TCS.NS", 102000, 100000)
  /\ live_quotes["TCS.NS"] = LiveQuote("TCS.NS", 102000, 100000)
  /\ ws_is_connected[1]

====
